---- MODULE Spec2Model ----
(***************************************************************************)
(* Model of the hirami ingestion service: the catch-up loop of             *)
(* run_ingestion (crates/cli/src/main.rs), BlockProcessor::process_block   *)
(* and its helpers (crates/ingestion/src/block_processor.rs), the          *)
(* validator tagger and the RPC client.                                    *)
(*                                                                         *)
(* Strings are sequences of one-character strings, so that parsing,        *)
(* formatting and case folding are computed and not assumed.  A JSON value *)
(* is [t |-> "null"] (absent, null or not a string), [t |-> "str", s |-> _]*)
(* or [t |-> "arr", a |-> _].                                              *)
(***************************************************************************)
EXTENDS Integers, Sequences, FiniteSets, TLC

(***************************************************************************)
(* Bounds of the model.                                                    *)
(***************************************************************************)
\* Highest block number held by the store before the run, when it is not empty.
StoredTip == 100
\* The node never reports a height more than this above the bootstrap cursor.
MaxAhead == 3
\* Block fetches (get_block calls) of one run.
MaxFetches == 3
\* Answered height queries (get_latest_block_number) of the polling loop.
MaxPolls == 2
\* Failures of the node and of the store in one run: failed or null fetches,
\* malformed responses, failed statements, failed audit writes.
MaxFaults == 2
\* Longest transaction list enumerated for the heuristics.
MaxTxs == 3
\* Width of a priority fee in the model, in bits (64 in the code).
FeeBits == 8
\* Calls of the tagger and imports of validators followed in one run of the
\* tagger alone.
MaxTaggerCalls == 3

(***************************************************************************)
(* Strings, hexadecimal parsing and formatting.                            *)
(***************************************************************************)
HexDigits == <<"0", "1", "2", "3", "4", "5", "6", "7", "8", "9",
               "a", "b", "c", "d", "e", "f">>

UpperHexDigits == <<"A", "B", "C", "D", "E", "F">>

\* char::to_digit(16): the value of a hexadecimal digit, -1 for any other character.
DigitVal(c) ==
    IF \E i \in 1..16 : HexDigits[i] = c
    THEN (CHOOSE i \in 1..16 : HexDigits[i] = c) - 1
    ELSE IF \E i \in 1..6 : UpperHexDigits[i] = c
    THEN (CHOOSE i \in 1..6 : UpperHexDigits[i] = c) + 9
    ELSE -1

\* str::to_lowercase on the characters the model uses.
LowerChar(c) ==
    IF \E i \in 1..6 : UpperHexDigits[i] = c
    THEN HexDigits[(CHOOSE i \in 1..6 : UpperHexDigits[i] = c) + 10]
    ELSE IF c = "X" THEN "x" ELSE c

to_lowercase(s) == [i \in 1..Len(s) |-> LowerChar(s[i])]

\* s.strip_prefix("0x").unwrap_or(s)
StripPrefix0x(s) ==
    IF Len(s) >= 2 /\ s[1] = "0" /\ s[2] = "x" THEN SubSeq(s, 3, Len(s)) ELSE s

RECURSIVE DigitsValue(_)
DigitsValue(ds) ==
    IF ds = <<>> THEN 0
    ELSE 16 * DigitsValue(SubSeq(ds, 1, Len(ds) - 1)) + DigitVal(ds[Len(ds)])

\* {u64,i64}::from_str_radix(s, 16): [ok, v].  An empty string, a lone sign and
\* any character that is not a hexadecimal digit are errors; "+" is accepted,
\* "-" only by the signed type.  (The strings of the model are too short for
\* the overflow error.)
from_str_radix(s, signed) ==
    LET neg  == s # <<>> /\ s[1] = "-"
        sgn  == s # <<>> /\ (s[1] = "+" \/ (signed /\ neg))
        ds   == IF sgn THEN Tail(s) ELSE s
    IN  IF ds = <<>> \/ \E i \in 1..Len(ds) : DigitVal(ds[i]) < 0
        THEN [ok |-> FALSE, v |-> 0]
        ELSE [ok |-> TRUE,
              v  |-> IF neg THEN 0 - DigitsValue(ds) ELSE DigitsValue(ds)]

\* format!("{:x}", n)
RECURSIVE LowerHex(_)
LowerHex(n) ==
    IF n < 16 THEN <<HexDigits[n + 1]>>
    ELSE LowerHex(n \div 16) \o <<HexDigits[(n % 16) + 1]>>

\* format!("0x{:x}", block_number)
HexBlock(n) == <<"0", "x">> \o LowerHex(n)

\* serde_json::Value, as far as process_block looks at it.
JNull == [t |-> "null"]
JStr(s) == [t |-> "str", s |-> s]
JArr(a) == [t |-> "arr", a |-> a]
\* Value::as_str
IsStr(v) == v.t = "str"
\* Value::as_array
IsArr(v) == v.t = "arr"

\* Option<T>
None == [some |-> FALSE]
Some(x) == [some |-> TRUE, v |-> x]

\* x put at its place in an ascending list.
RECURSIVE Insert(_, _)
Insert(x, sorted) ==
    IF sorted = <<>> THEN <<x>>
    ELSE IF x <= sorted[1] THEN <<x>> \o sorted
    ELSE <<sorted[1]>> \o Insert(x, Tail(sorted))

\* Vec::sort, ascending.
RECURSIVE Sort(_)
Sort(q) == IF q = <<>> THEN <<>> ELSE Insert(q[1], Sort(Tail(q)))

\* str::contains
Contains(s, p) ==
    \E i \in 1..(Len(s) - Len(p) + 1) : SubSeq(s, i, i + Len(p) - 1) = p

(***************************************************************************)
(* MEV heuristics of the ingestion path                                    *)
(* (BlockProcessor::process_transaction_json).                             *)
(***************************************************************************)
\* The swap selectors the ingestion path looks for in the calldata.
swap_patterns ==
    << <<"0", "2", "2", "c", "0", "d", "9", "f">>,
       <<"4", "7", "2", "b", "4", "3", "f", "3">>,
       <<"5", "c", "1", "1", "d", "7", "9", "5">>,
       <<"7", "f", "f", "3", "6", "a", "b", "5">>,
       <<"4", "1", "4", "b", "f", "3", "8", "9">> >>

\* Characters of the calldata kept in a transaction row's summary.
CalldataSummaryLimit == 200

\* tx["maxPriorityFeePerGas"] parsed as the row stores it: 0 when the field is
\* absent or does not parse.
max_priority_fee(tx) ==
    IF IsStr(tx.maxPriorityFeePerGas)
    THEN LET r == from_str_radix(StripPrefix0x(tx.maxPriorityFeePerGas.s), FALSE)
         IN  IF r.ok THEN r.v ELSE 0
    ELSE 0

\* The fee of a transaction when the field is a string that parses (filter_map).
HasFee(tx) ==
    /\ IsStr(tx.maxPriorityFeePerGas)
    /\ from_str_radix(StripPrefix0x(tx.maxPriorityFeePerGas.s), FALSE).ok

RECURSIVE BlockFees(_)
BlockFees(block_txs) ==
    IF block_txs = <<>> THEN <<>>
    ELSE (IF HasFee(block_txs[1]) THEN <<max_priority_fee(block_txs[1])>> ELSE <<>>)
         \o BlockFees(Tail(block_txs))

\* A result of u64 arithmetic that left the type's range, in a build without
\* overflow checks (the width is FeeBits in the model).
wrapping(x) == x % (2^FeeBits)

\* The sum of the two middle fees of a sorted list of even length.
MiddleSum(fees) == fees[Len(fees) \div 2] + fees[Len(fees) \div 2 + 1]

\* The median of a non-empty sorted list, as the ingestion path computes it.
Median(fees) ==
    IF Len(fees) % 2 = 0
    THEN wrapping(MiddleSum(fees)) \div 2
    ELSE fees[Len(fees) \div 2 + 1]

\* The sum of the middle fees or 3 times the median is outside u64: a panic in
\* a build with overflow checks, a wrapped value in a build without.
MedianOverflows(tx, block_txs) ==
    LET fees == Sort(BlockFees(block_txs))
    IN  /\ max_priority_fee(tx) > 0
        /\ fees # <<>>
        /\ \/ Len(fees) % 2 = 0 /\ MiddleSum(fees) >= 2^FeeBits
           \/ Median(fees) * 3 >= 2^FeeBits

HighPriorityFee(tx, block_txs) ==
    LET priority_fee_value == max_priority_fee(tx)
        fees == Sort(BlockFees(block_txs))
    IN  /\ priority_fee_value > 0
        /\ fees # <<>>
        /\ priority_fee_value > wrapping(Median(fees) * 3)
        /\ Median(fees) > 0

\* tx["from"].as_str(): an Option, None for an absent field.
AsStr(v) == IF IsStr(v) THEN Some(v.s) ELSE None

RepeatedSender(tx, block_txs) ==
    Cardinality({i \in 1..Len(block_txs) :
                    AsStr(block_txs[i].from) = AsStr(tx.from)}) >= 3

AtomicMultiswap(tx) ==
    /\ IsStr(tx.input)
    /\ Cardinality({k \in 1..Len(swap_patterns) :
                       Contains(tx.input.s, swap_patterns[k])}) >= 2

\* tx_index is zero-based, as in the code; block_txs[tx_index + 1] is the transaction.
SandwichPattern(tx, block_txs, tx_index) ==
    /\ IsStr(tx.from)
    /\ \E i \in 1..tx_index : AsStr(block_txs[i].from) = Some(tx.from.s)
    /\ \E i \in (tx_index + 2)..Len(block_txs) :
           AsStr(block_txs[i].from) = Some(tx.from.s)

\* Faulty variant: the rules are an else-if chain, only the first one that
\* triggers is reported.
mev_reasons_first_match(tx, block_txs, tx_index) ==
    IF HighPriorityFee(tx, block_txs) THEN <<"high_priority_fee_outlier">>
    ELSE IF RepeatedSender(tx, block_txs) THEN <<"repeated_sender_sequence">>
    ELSE IF AtomicMultiswap(tx) THEN <<"atomic_multiswap">>
    ELSE IF SandwichPattern(tx, block_txs, tx_index) THEN <<"sandwich_pattern">>
    ELSE <<>>

mev_reasons(tx, block_txs, tx_index) ==
    (IF HighPriorityFee(tx, block_txs) THEN <<"high_priority_fee_outlier">> ELSE <<>>)
    \o (IF RepeatedSender(tx, block_txs) THEN <<"repeated_sender_sequence">> ELSE <<>>)
    \o (IF AtomicMultiswap(tx) THEN <<"atomic_multiswap">> ELSE <<>>)
    \o (IF SandwichPattern(tx, block_txs, tx_index) THEN <<"sandwich_pattern">> ELSE <<>>)

calldata_summary(tx) ==
    IF IsStr(tx.input)
    THEN Some(IF Len(tx.input.s) > CalldataSummaryLimit
              THEN SubSeq(tx.input.s, 1, CalldataSummaryLimit) \o <<".", ".", ".">>
              ELSE tx.input.s)
    ELSE None

\* The row process_transaction_json binds for a transaction whose hash is present.
TransactionRow(block_id, tx, block_txs, tx_index) ==
    LET reasons == mev_reasons(tx, block_txs, tx_index)
    IN  [block_id         |-> block_id,
         tx_hash          |-> tx.hash.s,
         position_index   |-> tx_index,
         sender_address   |-> IF IsStr(tx.from) THEN tx.from.s
                              ELSE <<"u", "n", "k", "n", "o", "w", "n">>,
         max_priority_fee |-> max_priority_fee(tx),
         calldata_summary |-> calldata_summary(tx),
         is_mev_candidate |-> reasons # <<>>,
         mev_reason_codes |-> IF reasons # <<>> THEN Some(reasons) ELSE None]

(***************************************************************************)
(* MEV heuristics of the mev-heuristics crate (detectors.rs), on the typed *)
(* Transaction: `from` is an Address, which has no letter case (its        *)
(* to_string is one string per address, so comparing the strings compares  *)
(* the addresses), max_priority_fee_per_gas an Option and input the        *)
(* calldata bytes.                                                         *)
(***************************************************************************)
Transaction(from, fee, input) ==
    [from |-> from, max_priority_fee_per_gas |-> fee, input |-> input]

\* hex::encode: two lower-case digits per byte.
RECURSIVE hex_encode(_)
hex_encode(bytes) ==
    IF bytes = <<>> THEN <<>>
    ELSE <<HexDigits[(bytes[1] \div 16) + 1], HexDigits[(bytes[1] % 16) + 1]>>
         \o hex_encode(Tail(bytes))

\* The fees of the transactions that have one (filter_map).
RECURSIVE TypedFees(_)
TypedFees(txs) ==
    IF txs = <<>> THEN <<>>
    ELSE (IF txs[1].max_priority_fee_per_gas.some
          THEN <<txs[1].max_priority_fee_per_gas.v>> ELSE <<>>)
         \o TypedFees(Tail(txs))

\* Twice the median of a non-empty sorted list.  The detector computes the
\* median in Decimal, where the half of an odd sum is exact; twice the value
\* keeps it an integer.
TwiceDecimalMedian(fees) ==
    IF Len(fees) % 2 = 0
    THEN fees[Len(fees) \div 2] + fees[Len(fees) \div 2 + 1]
    ELSE 2 * fees[Len(fees) \div 2 + 1]

\* tx_priority_fee > median * 3, both sides doubled.
is_high_priority_fee_outlier(tx, txs) ==
    LET fees == Sort(TypedFees(txs))
    IN  /\ tx.max_priority_fee_per_gas.some
        /\ fees # <<>>
        /\ 2 * tx.max_priority_fee_per_gas.v > TwiceDecimalMedian(fees) * 3

\* Faulty variant: the transaction at index is not counted.
is_repeated_sender_others(tx, txs, index) ==
    Cardinality({i \in 1..Len(txs) : i # index + 1 /\ txs[i].from = tx.from}) >= 3

is_repeated_sender(tx, txs, index) ==
    Cardinality({i \in 1..Len(txs) : txs[i].from = tx.from}) >= 3

\* The swap selectors the detector looks for.
detector_swap_patterns == <<swap_patterns[4], swap_patterns[5], swap_patterns[3]>>

is_atomic_multiswap(tx) ==
    /\ tx.input # <<>>
    /\ Cardinality({k \in 1..Len(detector_swap_patterns) :
                       Contains(hex_encode(tx.input), detector_swap_patterns[k])}) >= 2

\* index is zero-based and below the length of txs (the slices of the code
\* panic beyond it).
is_sandwich_pattern(tx, txs, index) ==
    /\ \E i \in 1..index : txs[i].from = tx.from
    /\ \E i \in (index + 2)..Len(txs) : txs[i].from = tx.from

\* The reason codes (db::models::MevReasonCode), in the order of the enumeration.
MevReasonCode ==
    <<"HighPriorityFee", "RepeatedSender", "AtomicMultiswap", "SandwichPattern">>

\* MevReasonCode::as_str: the tag of a reason code.
as_str(code) ==
    CASE code = "HighPriorityFee" -> "high_priority_fee"
      [] code = "RepeatedSender"  -> "repeated_sender"
      [] code = "AtomicMultiswap" -> "atomic_multiswap"
      [] code = "SandwichPattern" -> "sandwich_pattern"

\* &block_txs[..bound] and &block_txs[bound..]: a bound above the length panics.
SliceInRange(txs, bound) == bound <= Len(txs)

\* Whether detect_mev_patterns returns: is_sandwich_pattern, which it always
\* calls, slices block_txs[..index] and block_txs[index + 1..].
detect_mev_patterns_returns(txs, index) ==
    /\ SliceInRange(txs, index)
    /\ SliceInRange(txs, index + 1)

detect_mev_patterns(tx, txs, index) ==
    (IF is_high_priority_fee_outlier(tx, txs) THEN <<"HighPriorityFee">> ELSE <<>>)
    \o (IF is_repeated_sender(tx, txs, index) THEN <<"RepeatedSender">> ELSE <<>>)
    \o (IF is_atomic_multiswap(tx) THEN <<"AtomicMultiswap">> ELSE <<>>)
    \o (IF is_sandwich_pattern(tx, txs, index) THEN <<"SandwichPattern">> ELSE <<>>)

(***************************************************************************)
(* The chain served by the node.  The chain is linear and does not         *)
(* reorganise: block n has one content, a function of n.  A response for n *)
(* is that block, or that block with a mandatory field missing or          *)
(* unparsable.                                                             *)
(***************************************************************************)
TaggedMiner == <<"0", "x", "A", "b">>
OtherMiner == <<"0", "x", "c", "d">>
SenderA == <<"0", "x", "a", "1">>
SenderB == <<"0", "x", "b", "2">>

\* Calldata holding two of the swap selectors.
SwapInput == <<"0", "x">> \o swap_patterns[4] \o swap_patterns[1]

Tx(hash, from, fee, input) ==
    [hash |-> hash, from |-> from, maxPriorityFeePerGas |-> fee, input |-> input]

ChainTransactions(n) ==
    CASE n % 3 = 0 -> <<>>
      [] n % 3 = 1 -> << Tx(JStr(<<"t", "1">>), JStr(SenderA), JStr(<<"0", "x", "2">>),
                            JStr(<<"0", "x">>)),
                         Tx(JNull, JStr(SenderB), JNull, JNull) >>
      [] OTHER     -> << Tx(JStr(<<"t", "2">>), JStr(SenderA), JStr(<<"0", "x", "1">>),
                            JStr(<<"0", "x">>)),
                         Tx(JStr(<<"t", "3">>), JStr(SenderB), JStr(<<"z">>),
                            JStr(SwapInput)) >>

\* The hash of block n, and of its parent (the genesis block has none).
BlockHash(n) == <<"h">> \o LowerHex(n)
ParentHash(n) == IF n = 0 THEN <<"h">> ELSE BlockHash(n - 1)

ChainBlock(n) ==
    [number        |-> JStr(HexBlock(n)),
     hash          |-> JStr(BlockHash(n)),
     parentHash    |-> JStr(ParentHash(n)),
     timestamp     |-> JStr(HexBlock(n + 16)),
     miner         |-> JStr(IF n % 2 = 0 THEN TaggedMiner ELSE OtherMiner),
     baseFeePerGas |-> IF n % 2 = 0 THEN JStr(<<"0", "x", "7">>) ELSE JNull,
     gasUsed       |-> JStr(<<"0", "x", "5", "2", "0", "8">>),
     transactions  |-> JArr(ChainTransactions(n))]

MandatoryFields ==
    {"number", "hash", "parentHash", "timestamp", "miner", "gasUsed", "transactions"}

\* Responses for block n that process_block cannot parse.
MalformedBlocks(n) ==
    {[ChainBlock(n) EXCEPT ![f] = JNull] : f \in MandatoryFields}
    \cup {[ChainBlock(n) EXCEPT ![f] = JStr(<<"0", "x", "g">>)] :
             f \in {"number", "timestamp", "gasUsed"}}
    \cup {[ChainBlock(n) EXCEPT !.gasUsed = JStr(<<"0", "x">>)]}

\* What eth_getBlockByNumber can answer for block n (result not null).
NodeBlocks(n) == {ChainBlock(n)} \cup MalformedBlocks(n)

\* 1 when the response b for block n is not the block of the chain.
ResponseFaults(b, n) == IF b = ChainBlock(n) THEN 0 ELSE 1

\* The validators table: lower-cased by import_validators.
Validators == {to_lowercase(TaggedMiner)}

\* SELECT DISTINCT fee_recipient FROM validators, each row lower-cased into
\* the set (ValidatorTagger::new and the success path of refresh).
LoadedRecipients(table) == {to_lowercase(v) : v \in table}

\* Faulty variant: refresh clears the set before it reads the store.
RefreshErrorCleared(set) == {}

\* The set after a refresh whose read of the store failed: the error is
\* returned before the set is touched.
RefreshError(set) == set

(***************************************************************************)
(* State.                                                                  *)
(***************************************************************************)
VARIABLES
    pc,                     \* where run_ingestion stands
    start_from_latest,      \* --start-from-latest
    sample_output_path,     \* whether an audit file is configured
    last_block,             \* the cursor
    latest_block,           \* upper end of the range being processed, 0 outside
    block_num,              \* block of the range being processed, 0 outside
    blocks,                 \* table blocks, rows in insertion order
    transactions,           \* table transactions, rows in insertion order
    builders,               \* table builders, rows in insertion order
    audit,                  \* the audit file: the records appended
    africa_fee_recipients,  \* ValidatorTagger's set
    metrics,                \* the counters and the latency histogram's counts
    block_json,             \* the block process_block was called with
    block_id,               \* id of the block row process_block inserted
    tx_index,               \* index of the next transaction of the block
    mev_candidate_count,    \* process_block's local count
    skipped,                \* history: indices of the block's skipped transactions
    log,                    \* history: one entry per block handled by the loop
    ranges,                 \* history: cursor and height at the start of each range
    boot,                   \* history: the bootstrap cursor, -1 before it is chosen
    boot_height,            \* history: the height answered to the bootstrap query
    exit_cause,             \* history: why run_ingestion returned
    faults,                 \* history: failures of the node and the store so far
    shutdown,               \* the external shutdown signal
    block_txs,              \* the typed transactions handed to detect_mev_patterns
    reason_codes,           \* what detect_mev_patterns returned, one entry per call
    validators,             \* table validators: the fee recipients stored
    tagger_calls            \* history: the calls of the tagger and the imports

configVars == <<start_from_latest, sample_output_path>>
loopVars == <<last_block, latest_block, block_num>>
storeVars == <<blocks, transactions, builders>>
ingestVars == <<block_json, block_id, tx_index, mev_candidate_count, skipped>>
bootVars == <<boot, boot_height, exit_cause>>
detectVars == <<block_txs, reason_codes>>
taggerVars == <<validators, tagger_calls>>

vars == <<pc, configVars, loopVars, storeVars, audit, africa_fee_recipients,
          metrics, ingestVars, log, ranges, bootVars, faults, shutdown,
          detectVars, taggerVars>>

\* A block row left by an earlier run.
StoredBlock(n) ==
    [id |-> 1, block_number |-> n, block_hash |-> BlockHash(n),
     parent_hash |-> ParentHash(n), timestamp |-> n + 16,
     fee_recipient |-> OtherMiner, base_fee |-> 0, gas_used |-> 21000,
     total_priority_fees |-> 0, is_africa_tagged |-> FALSE]

\* The builder rows left by an earlier run: one per fee recipient of its blocks,
\* since then marked as known.
StoredBuilders(rows) ==
    IF rows = <<>> THEN <<>>
    ELSE <<[fee_recipient |-> rows[1].fee_recipient, is_known |-> TRUE]>>

ZeroMetrics ==
    [blocks_processed |-> 0, transactions_processed |-> 0, mev_candidates |-> 0,
     africa_tagged_blocks |-> 0, rpc_errors |-> 0,
     latency_get_block_number |-> 0, latency_get_block |-> 0]

Init ==
    /\ pc = "startup"
    /\ start_from_latest \in BOOLEAN
    /\ sample_output_path \in BOOLEAN
    /\ blocks \in {<<>>, <<StoredBlock(StoredTip)>>}
    /\ transactions = <<>>
    /\ builders = StoredBuilders(blocks)
    /\ audit = <<>>
    /\ africa_fee_recipients = {}
    /\ metrics = ZeroMetrics
    /\ last_block = 0 /\ latest_block = 0 /\ block_num = 0
    /\ block_json = JNull /\ block_id = 0 /\ tx_index = 0
    /\ mev_candidate_count = 0 /\ skipped = {}
    /\ log = <<>> /\ ranges = <<>>
    /\ boot = -1 /\ boot_height = -1 /\ exit_cause = "none"
    /\ faults = 0
    /\ shutdown = FALSE
    /\ block_txs = <<>> /\ reason_codes = <<>>
    /\ validators = Validators /\ tagger_calls = <<>>

(***************************************************************************)
(* Pure parts of run_ingestion.                                            *)
(***************************************************************************)
\* SELECT MAX(block_number) FROM blocks, unwrap_or(0).
get_last_processed_block(rows) ==
    IF rows = <<>> THEN 0
    ELSE CHOOSE m \in {rows[i].block_number : i \in 1..Len(rows)} :
             \A i \in 1..Len(rows) : rows[i].block_number <= m

\* Faulty variant: the flag is ignored, the cursor always comes from the store.
InitialCursorStoreOnly(from_latest, latest, rows) == get_last_processed_block(rows)

\* The initial cursor: the chain height, or the store's highest block number.
InitialCursor(from_latest, latest, rows) ==
    IF from_latest THEN latest ELSE get_last_processed_block(rows)

\* if latest_block > last_block
HasNewBlocks(latest, last) == latest > last

\* Faulty variant: the range starts at the cursor itself.
RangeStartAtCursor(last) == last

\* First block of the range (last_block + 1)..=latest_block.
RangeStart(last) == last + 1

\* Faulty variant: the loop stays on the block it has just handled.
NextBlockSame(n, latest) == n

\* The block the for loop takes after block n.
NextBlock(n, latest) == n + 1

\* Faulty variant: the range stops at the first block that fails.
RangeStopsOnFailure(res, n, latest) == n < latest /\ res = "ok"

\* Faulty variant: a block the node does not have breaks the for loop.
RangeBreaksOnAbsent(res, n, latest) == n < latest /\ res # "absent"

\* Whether the range goes on after block n was handled with result res: no
\* result breaks the for loop.
RangeContinues(res, n, latest) == n < latest

\* Faulty variant: a failed height query ends the run.
AfterHeightErrorFatal == "exited"

\* Where the loop goes when the height query fails: the error is logged.
AfterHeightError == "sleep"

\* Blocks whose ingest returned an error.
IngestErrors == {"parse_err", "store_err", "builder_err"}

\* Faulty variant: the cursor follows every block handled.
CursorAfterAlways(res, n, cursor) == n

\* Faulty variant: the cursor advances only to the block right after it.
CursorAfterContiguous(res, n, cursor) ==
    IF res = "ok" /\ n = cursor + 1 THEN n ELSE cursor

\* Faulty variant: the cursor follows the block row, also when the builder step
\* failed after it was written.
CursorAfterStored(res, n, cursor) ==
    IF res \in {"ok", "builder_err"} THEN n ELSE cursor

\* The cursor after block n was handled with result res: advanced only when
\* the block was fetched and process_block returned Ok.
CursorAfter(res, n, cursor) == IF res = "ok" THEN n ELSE cursor

\* Heights the node reports in this model.
Heights == {h \in (boot - 1)..(boot + MaxAhead) : h >= 0}

\* Heights the node reports to the bootstrap query: the chain is ahead of the
\* store.
BootHeights == {StoredTip + 1}

(***************************************************************************)
(* Pure parts of process_block.                                            *)
(***************************************************************************)
HexField(v, signed) ==
    IF IsStr(v) THEN from_str_radix(StripPrefix0x(v.s), signed)
    ELSE [ok |-> FALSE, v |-> 0]

\* Faulty variant: gasUsed is not checked.
ParseOkNoGasUsed(b) ==
    /\ HexField(b.number, FALSE).ok
    /\ IsStr(b.hash)
    /\ IsStr(b.parentHash)
    /\ HexField(b.timestamp, TRUE).ok
    /\ IsStr(b.miner)
    /\ IsArr(b.transactions)

\* Whether every mandatory field of the block is present and parses.
ParseOk(b) ==
    /\ HexField(b.number, FALSE).ok
    /\ IsStr(b.hash)
    /\ IsStr(b.parentHash)
    /\ HexField(b.timestamp, TRUE).ok
    /\ IsStr(b.miner)
    /\ HexField(b.gasUsed, TRUE).ok
    /\ IsArr(b.transactions)

is_africa_tagged(tagger, fee_recipient) == to_lowercase(fee_recipient) \in tagger

\* Faulty variant: the sum is kept in an integer of the width of a fee and wraps.
RECURSIVE total_priority_fees_wrapping(_)
total_priority_fees_wrapping(txs) ==
    IF txs = <<>> THEN 0
    ELSE (max_priority_fee(txs[1]) + total_priority_fees_wrapping(Tail(txs)))
         % (2^FeeBits)

\* Sum of the transactions' priority fees, 0 for an absent or unparsable one.
\* The sum is a Decimal: 96 bits, which fees of 64 bits cannot fill.
RECURSIVE total_priority_fees(_)
total_priority_fees(txs) ==
    IF txs = <<>> THEN 0
    ELSE max_priority_fee(txs[1]) + total_priority_fees(Tail(txs))

\* Faulty variant: process_block asks the store's table for every block.
validator_tagger_from_store(tagger, table) == LoadedRecipients(table)

\* self.validator_tagger of process_block: the set that ValidatorTagger::new
\* loaded when run_ingestion built the processor, whatever the table holds now.
validator_tagger(tagger, table) == tagger

\* The row process_block inserts for a block that parses.
BlockRow(b, id, tagger) ==
    [id                  |-> id,
     block_number        |-> HexField(b.number, FALSE).v,
     block_hash          |-> b.hash.s,
     parent_hash         |-> b.parentHash.s,
     timestamp           |-> HexField(b.timestamp, TRUE).v,
     fee_recipient       |-> b.miner.s,
     base_fee            |-> IF HexField(b.baseFeePerGas, FALSE).ok
                             THEN HexField(b.baseFeePerGas, FALSE).v ELSE 0,
     gas_used            |-> HexField(b.gasUsed, TRUE).v,
     total_priority_fees |-> total_priority_fees(b.transactions.a),
     is_africa_tagged    |-> is_africa_tagged(tagger, b.miner.s)]

\* Faulty variant: the id read back is the one of the row before.
ReturnedIdOfPreviousRow(rows) == Len(rows)

\* RETURNING id, read with get::<i64, _>(0): the id the store gave the row
\* that the INSERT added to rows.
ReturnedId(rows) == Len(rows) + 1

\* The schema of the table blocks: block_number is unique, so the plain INSERT
\* of process_block is accepted only for a number that has no row.
BlockInsertAccepted(rows, n) ==
    \A i \in 1..Len(rows) : rows[i].block_number # n

\* SELECT EXISTS(SELECT 1 FROM builders WHERE fee_recipient = ?)
BuilderExists(rows, fee_recipient) ==
    \E i \in 1..Len(rows) : rows[i].fee_recipient = fee_recipient

\* Faulty variant: the row is inserted without looking for an existing one.
BuildersAfterNoLookup(rows, fee_recipient) ==
    Append(rows, [fee_recipient |-> fee_recipient, is_known |-> FALSE])

\* update_builder when both statements succeed.
BuildersAfter(rows, fee_recipient) ==
    IF BuilderExists(rows, fee_recipient) THEN rows
    ELSE Append(rows, [fee_recipient |-> fee_recipient, is_known |-> FALSE])

\* Faulty variant: the block is counted before update_builder is called.
MetricsCountedBeforeBuilder(m) == [m EXCEPT !.blocks_processed = @ + 1]

\* The counters when update_builder fails: its error returns from
\* process_block before the first counter is touched.
MetricsAfterBuilderError(m) == m

\* The counters after a block was processed.
MetricsAfter(m, n_txs, n_mev, tagged) ==
    [m EXCEPT !.blocks_processed = @ + 1,
              !.transactions_processed = @ + n_txs,
              !.mev_candidates = @ + n_mev,
              !.africa_tagged_blocks = @ + (IF tagged THEN 1 ELSE 0)]

\* Faulty variant: the index handed to process_transaction_json counts the
\* transactions that were not skipped.
IndexAmongWritten(index, n_skipped) == index - n_skipped

\* The index of transactions_data.iter().enumerate(): the position in the
\* block's list, whatever was skipped before.
EnumerateIndex(index, n_skipped) == index

\* Faulty variant: a failed transaction ends process_block's loop.
AfterTransactionAbort(outcome) == IF outcome = "err" THEN "aborted" ELSE "txs"

\* Where process_block goes after process_transaction_json returned outcome
\* ("ok" or "err"): both arms of the match stay in the loop over the transactions.
AfterTransaction(outcome) == "txs"

\* Faulty variant: a failed audit write is returned as the block's error.
AfterAuditFatal(outcome) == IF outcome = "write_err" THEN "audit_err" ELSE "ok"

\* What process_block returns after the audit step, whose outcome is "written",
\* "no_sink" or "write_err": the error of the write is only logged.
AfterAudit(outcome) == "ok"

\* A mandatory field of the response is missing or is not a hexadecimal number
\* where one is needed (the observer's reading of the response).
IsHexNumber(v) ==
    /\ v.t = "str"
    /\ StripPrefix0x(v.s) # <<>>
    /\ \A i \in 1..Len(StripPrefix0x(v.s)) : DigitVal(StripPrefix0x(v.s)[i]) >= 0

Malformed(b) ==
    \/ \E f \in {"number", "timestamp", "gasUsed"} : ~IsHexNumber(b[f])
    \/ \E f \in {"hash", "parentHash", "miner"} : b[f].t # "str"
    \/ b.transactions.t # "arr"

(***************************************************************************)
(* run_ingestion: start-up and the choice of the initial cursor.           *)
(***************************************************************************)
\* Opening the store, the migration, the validator import, the metrics
\* registry, the tagger's load and the metrics server: a failure of any of
\* them ends the run.
Startup ==
    /\ pc = "startup"
    /\ \/ /\ pc' = "boot"
          /\ africa_fee_recipients' = LoadedRecipients(validators)
          /\ UNCHANGED exit_cause
       \/ /\ pc' = "exited"
          /\ exit_cause' = "startup"
          /\ UNCHANGED africa_fee_recipients
    /\ UNCHANGED <<taggerVars, detectVars, configVars, loopVars, storeVars, audit, metrics, ingestVars,
                   log, ranges, boot, boot_height, faults, shutdown>>

Bootstrap ==
    /\ pc = "boot"
    /\ \/ \* start_from_latest: the height query answers
          /\ start_from_latest
          /\ \E latest \in BootHeights :
                /\ last_block' = InitialCursor(TRUE, latest, blocks)
                /\ boot_height' = latest
          /\ metrics' = [metrics EXCEPT !.latency_get_block_number = @ + 1]
          /\ boot' = last_block'
          /\ pc' = "poll"
          /\ UNCHANGED exit_cause
       \/ \* start_from_latest: call_rpc fails, the error is returned
          /\ start_from_latest
          /\ pc' = "exited"
          /\ exit_cause' = "rpc"
          /\ UNCHANGED <<last_block, boot, boot_height, metrics>>
       \/ \* start_from_latest: the result is not a hexadecimal string, the error
          \* is returned after the latency was observed
          /\ start_from_latest
          /\ metrics' = [metrics EXCEPT !.latency_get_block_number = @ + 1]
          /\ pc' = "exited"
          /\ exit_cause' = "rpc"
          /\ UNCHANGED <<last_block, boot, boot_height>>
       \/ \* otherwise: the store answers
          /\ ~start_from_latest
          /\ last_block' = InitialCursor(FALSE, 0, blocks)
          /\ boot' = last_block'
          /\ pc' = "poll"
          /\ UNCHANGED <<boot_height, exit_cause, metrics>>
       \/ \* otherwise: the store query fails, the error is returned
          /\ ~start_from_latest
          /\ pc' = "exited"
          /\ exit_cause' = "store"
          /\ UNCHANGED <<last_block, boot, boot_height, metrics>>
    /\ UNCHANGED <<taggerVars, detectVars, configVars, latest_block, block_num, storeVars, audit,
                   africa_fee_recipients, ingestVars, log, ranges, faults, shutdown>>

(***************************************************************************)
(* The polling loop.                                                       *)
(***************************************************************************)
\* rpc_client.get_latest_block_number() at the top of the loop.
PollHeight ==
    /\ pc = "poll"
    /\ \/ \E latest \in Heights :
             /\ metrics.latency_get_block_number
                    < MaxPolls + (IF start_from_latest THEN 1 ELSE 0)
             /\ HasNewBlocks(latest, last_block) =>
                    latest - last_block <= MaxFetches - Len(log)
             /\ metrics' = [metrics EXCEPT !.latency_get_block_number = @ + 1]
             /\ IF HasNewBlocks(latest, last_block)
                THEN /\ latest_block' = latest
                     /\ block_num' = RangeStart(last_block)
                     /\ ranges' = Append(ranges, [cursor |-> last_block,
                                                  height |-> latest])
                     /\ pc' = "fetch"
                ELSE /\ pc' = "sleep"
                     /\ UNCHANGED <<latest_block, block_num, ranges>>
             /\ UNCHANGED faults
       \/ \* Err of call_rpc, logged: no latency is observed
          /\ pc' = AfterHeightError
          /\ UNCHANGED <<metrics, latest_block, block_num, ranges, faults>>
       \/ \* Err, logged: the node answered, the result is not a hexadecimal string
          /\ metrics.latency_get_block_number
                 < MaxPolls + (IF start_from_latest THEN 1 ELSE 0)
          /\ faults < MaxFaults
          /\ faults' = faults + 1
          /\ metrics' = [metrics EXCEPT !.latency_get_block_number = @ + 1]
          /\ pc' = AfterHeightError
          /\ UNCHANGED <<latest_block, block_num, ranges>>
    /\ UNCHANGED <<taggerVars, detectVars, configVars, last_block, storeVars, audit, africa_fee_recipients,
                   ingestVars, log, bootVars, shutdown>>

\* What the log keeps of a block that did not reach process_block's transactions.
NoIngest(malformed) ==
    [malformed |-> malformed, block_id |-> 0, ntx |-> 0, processed |-> 0,
     skipped |-> {}]

\* The end of the handling of block block_num with result res: the cursor, the
\* next block of the range or the sleep, and the log entry.
Returned(res, info) ==
    /\ last_block' = CursorAfter(res, block_num, last_block)
    /\ IF RangeContinues(res, block_num, latest_block)
       THEN /\ block_num' = NextBlock(block_num, latest_block)
            /\ pc' = "fetch"
            /\ UNCHANGED latest_block
       ELSE /\ block_num' = 0
            /\ latest_block' = 0
            /\ pc' = "sleep"
    /\ log' = Append(log, [cycle     |-> Len(ranges),
                           n         |-> block_num,
                           res       |-> res,
                           cursor    |-> last_block',
                           malformed |-> info.malformed,
                           block_id  |-> info.block_id,
                           ntx       |-> info.ntx,
                           processed |-> info.processed,
                           skipped   |-> info.skipped])
    /\ block_json' = JNull
    /\ block_id' = 0
    /\ tx_index' = 0
    /\ mev_candidate_count' = 0
    /\ skipped' = {}

\* rpc_client.get_block(block_num) and, on a block, process_block up to the
\* insert of the block row.
FetchBlock ==
    /\ pc = "fetch"
    /\ \/ \* get_block: Err, logged, next block
          /\ faults < MaxFaults
          /\ faults' = faults + 1
          /\ Returned("fetch_err", NoIngest(FALSE))
          /\ UNCHANGED <<metrics, blocks>>
       \/ \* get_block: Ok(None), the node answers null
          /\ faults < MaxFaults
          /\ faults' = faults + 1
          /\ metrics' = [metrics EXCEPT !.latency_get_block = @ + 1]
          /\ Returned("absent", NoIngest(FALSE))
          /\ UNCHANGED blocks
       \/ \* get_block: Ok(Some(b)), process_block(b) is called
          \E b \in NodeBlocks(block_num) :
             /\ faults + ResponseFaults(b, block_num) <= MaxFaults
             /\ metrics' = [metrics EXCEPT !.latency_get_block = @ + 1]
             /\ IF ~ParseOk(b)
                THEN /\ faults' = faults + ResponseFaults(b, block_num)
                     /\ Returned("parse_err", NoIngest(Malformed(b)))
                     /\ UNCHANGED blocks
                ELSE \/ \* the INSERT of the block row fails
                        /\ faults + ResponseFaults(b, block_num) < MaxFaults
                        /\ faults' = faults + ResponseFaults(b, block_num) + 1
                        /\ Returned("store_err", NoIngest(Malformed(b)))
                        /\ UNCHANGED blocks
                     \/ \* the INSERT is refused: the block number has a row
                        /\ ~BlockInsertAccepted(blocks, HexField(b.number, FALSE).v)
                        /\ faults' = faults + ResponseFaults(b, block_num)
                        /\ Returned("store_err", NoIngest(Malformed(b)))
                        /\ UNCHANGED blocks
                     \/ \* RETURNING id
                        /\ BlockInsertAccepted(blocks, HexField(b.number, FALSE).v)
                        /\ faults' = faults + ResponseFaults(b, block_num)
                        /\ blocks' = Append(blocks,
                                            BlockRow(b, Len(blocks) + 1,
                                                     validator_tagger(africa_fee_recipients,
                                                                      validators)))
                        /\ block_json' = b
                        /\ block_id' = ReturnedId(blocks)
                        /\ tx_index' = 0
                        /\ mev_candidate_count' = 0
                        /\ skipped' = {}
                        /\ pc' = "txs"
                        /\ UNCHANGED <<loopVars, log>>
    /\ UNCHANGED <<taggerVars, detectVars, configVars, transactions, builders, audit,
                   africa_fee_recipients, ranges, bootVars, shutdown>>

\* One turn of process_block's loop over the transactions:
\* process_transaction_json on the transaction at tx_index.  (The fees of the
\* chain's transactions are far below the width of u64: MedianOverflows is
\* false for every one of them.)
ProcessTransaction ==
    /\ pc = "txs"
    /\ tx_index < Len(block_json.transactions.a)
    /\ LET txs == block_json.transactions.a
           tx  == txs[tx_index + 1]
           row == TransactionRow(block_id, tx, txs,
                                 EnumerateIndex(tx_index, Cardinality(skipped)))
       IN  \/ \* Ok(is_mev): the row is inserted
              /\ IsStr(tx.hash)
              /\ transactions' = Append(transactions, row)
              /\ mev_candidate_count' =
                     mev_candidate_count + (IF row.is_mev_candidate THEN 1 ELSE 0)
              /\ pc' = AfterTransaction("ok")
              /\ UNCHANGED <<skipped, faults>>
           \/ \* Err, logged: the hash is missing
              /\ ~IsStr(tx.hash)
              /\ skipped' = skipped \cup {tx_index}
              /\ pc' = AfterTransaction("err")
              /\ UNCHANGED <<transactions, mev_candidate_count, faults>>
           \/ \* Err, logged: the INSERT fails
              /\ IsStr(tx.hash)
              /\ faults < MaxFaults
              /\ faults' = faults + 1
              /\ skipped' = skipped \cup {tx_index}
              /\ pc' = AfterTransaction("err")
              /\ UNCHANGED <<transactions, mev_candidate_count>>
    /\ tx_index' = tx_index + 1
    /\ UNCHANGED <<taggerVars, detectVars, configVars, loopVars, blocks, builders, audit,
                   africa_fee_recipients, metrics, block_json, block_id,
                   log, ranges, bootVars, shutdown>>

\* The audit record of a block.
AuditBlock(b, tagger, n_mev) ==
    [block_number        |-> HexField(b.number, FALSE).v,
     block_hash          |-> b.hash.s,
     fee_recipient       |-> b.miner.s,
     is_africa_tagged    |-> is_africa_tagged(tagger, b.miner.s),
     transaction_count   |-> Len(b.transactions.a),
     mev_candidate_count |-> n_mev]

\* What the log keeps of a block whose transactions process_block has gone through.
Ingested ==
    [malformed |-> Malformed(block_json), block_id |-> block_id,
     ntx |-> Len(block_json.transactions.a), processed |-> tx_index,
     skipped |-> skipped]

\* process_block after the transactions: the builder row, the counters, the
\* audit record, and the return to the loop.
FinishBlock ==
    /\ pc = "txs"
    /\ tx_index = Len(block_json.transactions.a)
    /\ \/ \* update_builder fails (the SELECT or the INSERT)
          /\ faults < MaxFaults
          /\ faults' = faults + 1
          /\ Returned("builder_err", Ingested)
          /\ metrics' = MetricsAfterBuilderError(metrics)
          /\ UNCHANGED <<builders, audit>>
       \/ \* the audit record is written
          /\ sample_output_path
          /\ UNCHANGED faults
          /\ builders' = BuildersAfter(builders, block_json.miner.s)
          /\ metrics' = MetricsAfter(metrics, Len(block_json.transactions.a),
                                     mev_candidate_count,
                                     is_africa_tagged(africa_fee_recipients,
                                                      block_json.miner.s))
          /\ audit' = Append(audit, AuditBlock(block_json, africa_fee_recipients,
                                               mev_candidate_count))
          /\ Returned(AfterAudit("written"), Ingested)
       \/ \* no audit file is configured
          /\ ~sample_output_path
          /\ UNCHANGED faults
          /\ builders' = BuildersAfter(builders, block_json.miner.s)
          /\ metrics' = MetricsAfter(metrics, Len(block_json.transactions.a),
                                     mev_candidate_count,
                                     is_africa_tagged(africa_fee_recipients,
                                                      block_json.miner.s))
          /\ UNCHANGED audit
          /\ Returned(AfterAudit("no_sink"), Ingested)
       \/ \* the write of the audit record fails (logged)
          /\ sample_output_path
          /\ faults < MaxFaults
          /\ faults' = faults + 1
          /\ builders' = BuildersAfter(builders, block_json.miner.s)
          /\ metrics' = MetricsAfter(metrics, Len(block_json.transactions.a),
                                     mev_candidate_count,
                                     is_africa_tagged(africa_fee_recipients,
                                                      block_json.miner.s))
          /\ UNCHANGED audit
          /\ Returned(AfterAudit("write_err"), Ingested)
    /\ UNCHANGED <<taggerVars, detectVars, configVars, blocks, transactions, africa_fee_recipients,
                   ranges, bootVars, shutdown>>

\* sleep(poll_duration)
Sleep ==
    /\ pc = "sleep"
    /\ pc' = "poll"
    /\ UNCHANGED <<taggerVars, detectVars, configVars, loopVars, storeVars, audit, africa_fee_recipients,
                   metrics, ingestVars, log, ranges, bootVars, faults, shutdown>>

\* The shutdown signal is raised.  run_ingestion installs no handler and never
\* reads it.
RaiseShutdown ==
    /\ ~shutdown
    /\ pc \notin {"startup", "exited"}
    /\ shutdown' = TRUE
    /\ UNCHANGED <<taggerVars, detectVars, pc, configVars, loopVars, storeVars, audit,
                   africa_fee_recipients, metrics, ingestVars, log, ranges,
                   bootVars, faults>>

Next ==
    \/ Startup
    \/ Bootstrap
    \/ PollHeight
    \/ FetchBlock
    \/ ProcessTransaction
    \/ FinishBlock
    \/ Sleep

Spec == Init /\ [][Next]_vars

\* Where the loop is within a range: the block of the for loop and the
\* transaction of process_block's loop.
controlVars == <<pc, block_num, tx_index>>

\* The control flow of FetchBlock, ProcessTransaction and FinishBlock: the
\* for loop of run_ingestion goes to process_block, to the next block or to
\* the sleep, and process_block's loop goes to the next transaction.
LoopControl ==
    \/ /\ pc = "fetch"
       /\ pc' \in {"fetch", "txs", "sleep"}
       /\ block_num' \in {0, block_num, block_num + 1}
       /\ tx_index' = 0
    \/ /\ pc = "txs" /\ tx_index < Len(block_json.transactions.a)
       /\ tx_index' = tx_index + 1
       /\ UNCHANGED <<pc, block_num>>
    \/ /\ pc = "txs" /\ tx_index = Len(block_json.transactions.a)
       /\ pc' \in {"fetch", "sleep"}
       /\ block_num' \in {0, block_num + 1}
       /\ tx_index' = 0

\* The loop is one task and each await of a range returns (the call answers
\* or fails): within a range the loop does not stop.
SpecLive == Spec /\ WF_controlVars(LoopControl)

\* The same run with the shutdown signal raised at any moment.
NextShutdown == Next \/ RaiseShutdown

SpecShutdown == Init /\ [][NextShutdown]_vars

\* The table the import command, or any other writer, leaves behind while the
\* loop runs: the validator of the chain removed, the other miner added.
RewrittenTable == {to_lowercase(OtherMiner)}

\* The table of validators is rewritten once the tagger has been built.
\* tagger_calls keeps the new table and whether the run had written a block
\* row by then.
RewriteValidators ==
    /\ pc \notin {"startup", "exited"}
    /\ validators = Validators
    /\ validators' = RewrittenTable
    /\ tagger_calls' = Append(tagger_calls,
                              [op |-> "import", table |-> RewrittenTable,
                               first |-> blocks = <<>>])
    /\ UNCHANGED <<detectVars, pc, configVars, loopVars, storeVars, audit,
                   africa_fee_recipients, metrics, ingestVars, log, ranges,
                   bootVars, faults, shutdown>>

\* The same run with the table of validators rewritten at any moment.
NextRewrite == Next \/ RewriteValidators

SpecRewrite == Init /\ [][NextRewrite]_vars

(***************************************************************************)
(* The heuristics and the fee total as functions of a block: one block is  *)
(* drawn, process_block inserts its row and the rows of its transactions,  *)
(* and the detector is called on each typed transaction.                   *)
(***************************************************************************)
\* The largest fee of the model's width.
MaxFee == 2^FeeBits - 1

\* The lists of at most MaxTxs members of S.
Lists(S) == UNION {[1..n -> S] : n \in 0..MaxTxs}

TxHash(i) == JStr(<<"t">> \o LowerHex(i))

NoCalldata == JStr(<<"0", "x">>)

\* What a transaction's maxPriorityFeePerGas can be: absent, unparsable, or a
\* hexadecimal quantity.
JsonFees ==
    {JNull, JStr(<<"z">>), JStr(HexBlock(0)), JStr(HexBlock(1)), JStr(HexBlock(2)),
     JStr(HexBlock(4)), JStr(HexBlock(MaxFee))}

\* SenderA as a node that keeps the checksum's capitals writes it.
SenderAMixed == <<"0", "x", "A", "1">>
SenderC == <<"0", "x", "c", "3">>
SenderD == <<"0", "x", "d", "4">>

JsonSenders == {JNull, JStr(SenderA), JStr(SenderAMixed), JStr(SenderB)}

JsonTxs(senders, fees) ==
    [i \in 1..Len(fees) |-> Tx(TxHash(i), senders[i], fees[i], NoCalldata)]

\* Ten fees between 1 and 2 units and one of 10 units (a unit is 10).
OutlierFees == [i \in 1..11 |-> IF i = 11 THEN 100 ELSE 9 + i]

\* Sender A at the positions 0, 4 and 7 of eight transactions.
SendersAt047 ==
    <<SenderA, SenderB, SenderC, SenderD, SenderA, SenderB, SenderC, SenderA>>

\* Four fees whose two middle values have an odd sum.
OddSumFees == <<1, 1, 2, 4>>

\* Three fees of the full width around an absent and an unparsable one.
WideFees ==
    <<JStr(HexBlock(MaxFee)), JNull, JStr(HexBlock(MaxFee)), JStr(<<"z">>),
      JStr(HexBlock(MaxFee))>>

\* The hexadecimal digits of s in capitals.
UpperHex(s) ==
    [i \in 1..Len(s) |->
        IF \E j \in 11..16 : HexDigits[j] = s[i]
        THEN UpperHexDigits[(CHOOSE j \in 11..16 : HexDigits[j] = s[i]) - 10]
        ELSE s[i]]

\* The bytes a string of hexadecimal digits stands for, capitals or not.
hex_decode(s) ==
    [i \in 1..(Len(s) \div 2) |-> 16 * DigitVal(s[2 * i - 1]) + DigitVal(s[2 * i])]

\* Calldata as strings of hexadecimal digits: none, one selector, one selector
\* twice, two selectors of the detector's set, the same in capitals, two
\* selectors that only the ingestion path knows, and one of each set.
CalldataHex ==
    {<<>>,
     swap_patterns[4],
     swap_patterns[4] \o swap_patterns[4],
     swap_patterns[4] \o swap_patterns[5],
     UpperHex(swap_patterns[4] \o swap_patterns[5]),
     swap_patterns[1] \o swap_patterns[2],
     swap_patterns[1] \o swap_patterns[4]}

\* Three transactions of one sender; the middle one pays 4 times the median
\* and carries two swap selectors.
AllRulesCalldata == swap_patterns[4] \o swap_patterns[5]

AllRulesJson ==
    [i \in 1..3 |->
        Tx(TxHash(i), JStr(SenderA), JStr(HexBlock(IF i = 2 THEN 4 ELSE 1)),
           IF i = 2 THEN JStr(<<"0", "x">> \o AllRulesCalldata) ELSE NoCalldata)]

\* What a transaction's input can be: absent, or "0x" and the digits.
JsonCalldata == {JNull} \cup {JStr(<<"0", "x">> \o h) : h \in CalldataHex}

JsonBlocks ==
    {JsonTxs([i \in 1..Len(f) |-> JStr(SenderA)], f) : f \in Lists(JsonFees)}
    \cup {JsonTxs(q, [i \in 1..Len(q) |-> JStr(HexBlock(1))]) : q \in Lists(JsonSenders)}
    \cup {JsonTxs([i \in 1..Len(f) |-> JStr(SenderA)],
                  [i \in 1..Len(f) |-> JStr(HexBlock(f[i]))]) : f \in {OutlierFees, OddSumFees}}
    \cup {JsonTxs([i \in 1..8 |-> JStr(SendersAt047[i])],
                  [i \in 1..8 |-> JStr(HexBlock(1))])}
    \cup {JsonTxs([i \in 1..Len(WideFees) |-> JStr(SenderB)], WideFees)}
    \cup {<<Tx(TxHash(1), JStr(SenderA), JStr(HexBlock(1)), c)>> : c \in JsonCalldata}
    \cup {AllRulesJson}

\* Addresses are bytes.
AddressA == <<161>>
AddressB == <<178>>
AddressC == <<195>>
AddressD == <<212>>

TypedFees047 == {None, Some(0), Some(1), Some(2), Some(4)}

TypedTxs(senders, fees) ==
    [i \in 1..Len(fees) |-> Transaction(senders[i], fees[i], <<>>)]

AddressesAt047 ==
    <<AddressA, AddressB, AddressC, AddressD, AddressA, AddressB, AddressC, AddressA>>

AllRulesTyped ==
    [i \in 1..3 |->
        Transaction(AddressA, Some(IF i = 2 THEN 4 ELSE 1),
                    IF i = 2 THEN hex_decode(AllRulesCalldata) ELSE <<>>)]

\* The transaction the unit tests analyse against a list it is not part of.
OutlierTransaction == Transaction(AddressA, Some(OutlierFees[11]), <<>>)

TypedBlocks ==
    {TypedTxs([i \in 1..Len(f) |-> AddressA], f) : f \in Lists(TypedFees047)}
    \cup {TypedTxs(q, [i \in 1..Len(q) |-> Some(1)]) :
             q \in Lists({AddressA, AddressB, AddressC})}
    \cup {TypedTxs([i \in 1..Len(f) |-> AddressA], [i \in 1..Len(f) |-> Some(f[i])]) :
             f \in {OutlierFees, OddSumFees}}
    \cup {TypedTxs(AddressesAt047, [i \in 1..8 |-> Some(1)])}
    \cup {<<Transaction(AddressA, Some(1), hex_decode(h))>> : h \in CalldataHex}
    \cup {TypedTxs([i \in 1..10 |-> AddressA], [i \in 1..10 |-> Some(OutlierFees[i])])}
    \cup {AllRulesTyped}

InitHeuristics ==
    /\ pc = "block"
    /\ start_from_latest = FALSE
    /\ sample_output_path = FALSE
    /\ \E txs \in JsonBlocks :
           block_json = [ChainBlock(StoredTip + 1) EXCEPT !.transactions = JArr(txs)]
    /\ block_txs \in TypedBlocks
    /\ \/ block_json.transactions.a = <<>>
       \/ block_txs = <<>>
       \/ block_json.transactions.a = AllRulesJson /\ block_txs = AllRulesTyped
    /\ blocks = <<>> /\ transactions = <<>> /\ builders = <<>>
    /\ audit = <<>>
    /\ africa_fee_recipients = LoadedRecipients(Validators)
    /\ metrics = ZeroMetrics
    /\ last_block = StoredTip /\ latest_block = StoredTip + 1
    /\ block_num = StoredTip + 1
    /\ block_id = 0 /\ tx_index = 0
    /\ mev_candidate_count = 0 /\ skipped = {}
    /\ log = <<>> /\ ranges = <<>>
    /\ boot = StoredTip /\ boot_height = -1 /\ exit_cause = "none"
    /\ faults = 0
    /\ shutdown = FALSE
    /\ reason_codes = <<>>
    /\ validators = Validators /\ tagger_calls = <<>>

\* process_block up to the INSERT of the block row.
InsertBlock ==
    /\ pc = "block"
    /\ blocks' = Append(blocks, BlockRow(block_json, Len(blocks) + 1,
                                         africa_fee_recipients))
    /\ block_id' = Len(blocks) + 1
    /\ pc' = "transactions"
    /\ UNCHANGED <<taggerVars, detectVars, configVars, loopVars, transactions, builders, audit,
                   africa_fee_recipients, metrics, block_json, tx_index,
                   mev_candidate_count, skipped, log, ranges, bootVars, faults,
                   shutdown>>

\* process_transaction_json on the next transaction of the block.  When the
\* median's arithmetic leaves u64 the build decides: the row is written with
\* the wrapped values, or the task panics before the INSERT.
InsertTransaction ==
    /\ pc = "transactions"
    /\ tx_index < Len(block_json.transactions.a)
    /\ LET txs == block_json.transactions.a
           row == TransactionRow(block_id, txs[tx_index + 1], txs, tx_index)
       IN  \/ /\ transactions' = Append(transactions, row)
              /\ mev_candidate_count' =
                     mev_candidate_count + (IF row.is_mev_candidate THEN 1 ELSE 0)
              /\ tx_index' = tx_index + 1
              /\ UNCHANGED pc
           \/ /\ MedianOverflows(txs[tx_index + 1], txs)
              /\ pc' = "overflow_panic"
              /\ UNCHANGED <<transactions, mev_candidate_count, tx_index>>
    /\ UNCHANGED <<taggerVars, detectVars, configVars, loopVars, blocks, builders, audit,
                   africa_fee_recipients, metrics, block_json, block_id, skipped,
                   log, ranges, bootVars, faults, shutdown>>

\* TransactionAnalyzer::analyze on the next typed transaction.
DetectPatterns ==
    /\ pc = "transactions"
    /\ Len(reason_codes) < Len(block_txs)
    /\ reason_codes' =
           Append(reason_codes,
                  detect_mev_patterns(block_txs[Len(reason_codes) + 1], block_txs,
                                      Len(reason_codes)))
    /\ UNCHANGED <<taggerVars, block_txs, pc, configVars, loopVars, storeVars, audit,
                   africa_fee_recipients, metrics, ingestVars, log, ranges,
                   bootVars, faults, shutdown>>

\* detect_mev_patterns as the unit tests call it: on a transaction that is not
\* in the list, with the length of the list as index.
DetectDetached ==
    /\ pc = "transactions"
    /\ pc' = IF detect_mev_patterns_returns(block_txs, Len(block_txs))
             THEN IF detect_mev_patterns(OutlierTransaction, block_txs,
                                         Len(block_txs)) = <<>>
                  THEN "returned_none" ELSE "returned_some"
             ELSE "panicked"
    /\ UNCHANGED <<taggerVars, detectVars, configVars, loopVars, storeVars, audit,
                   africa_fee_recipients, metrics, ingestVars, log, ranges,
                   bootVars, faults, shutdown>>

NextHeuristics ==
    \/ InsertBlock
    \/ InsertTransaction
    \/ DetectPatterns
    \/ DetectDetached

SpecHeuristics == InitHeuristics /\ [][NextHeuristics]_vars

(***************************************************************************)
(* The tagger alone: built from the store, then queried and refreshed      *)
(* while the table of validators is rewritten by imports.                  *)
(***************************************************************************)
\* TaggedMiner in capitals throughout.
TaggedMinerUpper == <<"0", "X", "A", "B">>

\* Contents of the table validators; a table written by other tools than
\* import_validators can hold capitals.
ValidatorTables ==
    {{}, {TaggedMiner}, {TaggedMiner, to_lowercase(TaggedMiner)},
     {to_lowercase(TaggedMiner), OtherMiner}}

\* Addresses the tagger is asked about.
TaggerQueries == {TaggedMiner, to_lowercase(TaggedMiner), TaggedMinerUpper, OtherMiner}

InitTagger ==
    /\ pc = "tagger"
    /\ start_from_latest = FALSE
    /\ sample_output_path = FALSE
    /\ validators \in ValidatorTables
    /\ africa_fee_recipients = LoadedRecipients(validators)
    /\ tagger_calls = <<>>
    /\ blocks = <<>> /\ transactions = <<>> /\ builders = <<>>
    /\ audit = <<>>
    /\ metrics = ZeroMetrics
    /\ last_block = 0 /\ latest_block = 0 /\ block_num = 0
    /\ block_json = JNull /\ block_id = 0 /\ tx_index = 0
    /\ mev_candidate_count = 0 /\ skipped = {}
    /\ log = <<>> /\ ranges = <<>>
    /\ boot = -1 /\ boot_height = -1 /\ exit_cause = "none"
    /\ faults = 0
    /\ shutdown = FALSE
    /\ block_txs = <<>> /\ reason_codes = <<>>

\* An entry of tagger_calls: the table and the set before the call, the set
\* after it, and what the call returned.
TaggerCall(op, arg, result, after) ==
    [op |-> op, arg |-> arg, result |-> result, table |-> validators,
     before |-> africa_fee_recipients, after |-> after]

\* The import command, or any other writer, rewrites the table.
ImportValidators ==
    /\ pc = "tagger"
    /\ Len(tagger_calls) < MaxTaggerCalls
    /\ \E table \in ValidatorTables \ {validators} : validators' = table
    /\ tagger_calls' = Append(tagger_calls, TaggerCall("import", <<>>, "ok", africa_fee_recipients))
    /\ UNCHANGED <<detectVars, pc, configVars, loopVars, storeVars, audit,
                   africa_fee_recipients, metrics, ingestVars, log, ranges,
                   bootVars, faults, shutdown>>

\* ValidatorTagger::refresh.
Refresh ==
    /\ pc = "tagger"
    /\ Len(tagger_calls) < MaxTaggerCalls
    /\ \/ \* the query answers
          /\ africa_fee_recipients' = LoadedRecipients(validators)
          /\ tagger_calls' = Append(tagger_calls,
                                    TaggerCall("refresh", <<>>, "ok",
                                               LoadedRecipients(validators)))
       \/ \* the query fails
          /\ africa_fee_recipients' = RefreshError(africa_fee_recipients)
          /\ tagger_calls' = Append(tagger_calls,
                                    TaggerCall("refresh", <<>>, "err",
                                               RefreshError(africa_fee_recipients)))
    /\ UNCHANGED <<detectVars, pc, configVars, loopVars, storeVars, audit, metrics,
                   ingestVars, log, ranges, bootVars, faults, shutdown, validators>>

\* ValidatorTagger::is_africa_tagged.
IsAfricaTagged ==
    /\ pc = "tagger"
    /\ Len(tagger_calls) < MaxTaggerCalls
    /\ \E address \in TaggerQueries :
           tagger_calls' =
               Append(tagger_calls,
                      TaggerCall("is_africa_tagged", address,
                                 IF is_africa_tagged(africa_fee_recipients, address)
                                 THEN "true" ELSE "false",
                                 africa_fee_recipients))
    /\ UNCHANGED <<detectVars, pc, configVars, loopVars, storeVars, audit,
                   africa_fee_recipients, metrics, ingestVars, log, ranges,
                   bootVars, faults, shutdown, validators>>

NextTagger ==
    \/ ImportValidators
    \/ Refresh
    \/ IsAfricaTagged

SpecTagger == InitTagger /\ [][NextTagger]_vars

(***************************************************************************)
(* Vocabulary of the properties.                                           *)
(***************************************************************************)
\* The states of the polling loop.
PollStates == {"poll", "fetch", "txs", "sleep"}

\* The log entries of range k, in order.
CycleEntries(k) == SelectSeq(log, LAMBDA e : e.cycle = k)

\* Range k has been handled to its end.
CycleOver(k) == k < Len(ranges) \/ pc \in {"poll", "sleep"}

\* Results of a block whose fetch or ingest failed.
Failures == {"fetch_err", "absent"} \cup IngestErrors

\* Block numbers whose ingest returned success.
OkNumbers == {log[i].n : i \in {j \in 1..Len(log) : log[j].res = "ok"}}

\* The cursor before log entry i was handled.
CursorBefore(i) == IF i = 1 THEN boot ELSE log[i - 1].cursor

(***************************************************************************)
(* C1: in a cycle whose height H is above the cursor c, the blocks c+1..H  *)
(* (c and H as they were when the cycle began) are fetched once each, in   *)
(* increasing order; the cursor becomes n exactly when block n was fetched *)
(* and ingested with success, and is left as it was on a fetch error, an   *)
(* absent block or an ingest error, the loop going on to n+1.              *)
(***************************************************************************)
C1_RangeFetchedInOrder ==
    /\ \A k \in 1..Len(ranges) :
          LET e == CycleEntries(k)
              r == ranges[k]
          IN  /\ r.height > r.cursor
              /\ Len(e) <= r.height - r.cursor
              /\ \A i \in 1..Len(e) : e[i].n = r.cursor + i
              /\ CycleOver(k) => Len(e) = r.height - r.cursor
              /\ ~CycleOver(k) => /\ block_num = r.cursor + Len(e) + 1
                                  /\ latest_block = r.height
    /\ \A i \in 1..Len(log) :
          /\ log[i].res = "ok" => log[i].cursor = log[i].n
          /\ log[i].res \in Failures => log[i].cursor = CursorBefore(i)
          /\ log[i].res \in Failures \cup {"ok"}
          /\ CursorBefore(i) = ranges[log[i].cycle].cursor
             \/ (i > 1 /\ log[i - 1].cycle = log[i].cycle)
    /\ boot # -1 => last_block = (IF log = <<>> THEN boot ELSE log[Len(log)].cursor)

\* A cycle of three blocks is over: the first fetch failed, the second block was
\* ingested, the third did not parse.
W_C1 ==
    /\ pc = "sleep"
    /\ Len(log) = 3
    /\ log[1].cycle = log[3].cycle
    /\ log[1].res = "fetch_err" /\ log[2].res = "ok" /\ log[3].res = "parse_err"
    /\ last_block = log[2].n

(***************************************************************************)
(* C2: in the polling loop the cursor is its bootstrap value or the        *)
(* highest block number whose ingest returned success; no step lowers it,  *)
(* and a poll that starts no range (height at or below the cursor, or a    *)
(* failed query) fetches nothing and leaves the cursor as it was.          *)
(***************************************************************************)
CursorIsHighestSuccess ==
    boot # -1 =>
        /\ last_block >= boot
        /\ IF OkNumbers = {} THEN last_block = boot
           ELSE /\ last_block \in OkNumbers
                /\ \A n \in OkNumbers : n <= last_block

C2_CursorMonotone ==
    /\ []CursorIsHighestSuccess
    /\ [][boot # -1 => last_block' >= last_block]_vars
    /\ [][pc = "poll" /\ pc' = "sleep" =>
              /\ last_block' = last_block
              /\ log' = log
              /\ metrics'.latency_get_block = metrics.latency_get_block
              /\ storeVars' = storeVars]_vars

\* The cursor has advanced and a later poll was answered without starting a range.
W_C2 ==
    /\ pc = "sleep"
    /\ last_block > boot
    /\ Len(ranges) = 1
    /\ metrics.latency_get_block_number
           = 2 + (IF start_from_latest THEN 1 ELSE 0)

FailedThenIngested(i, j) ==
    /\ i < j
    /\ log[i].cycle = log[j].cycle
    /\ log[i].res \in Failures
    /\ log[j].res = "ok"

CE_C4 ==
    \A i, j \in 1..Len(log) :
        (FailedThenIngested(i, j) /\ CycleOver(log[j].cycle + 1)
                                  /\ Len(ranges) > log[j].cycle) =>
            /\ \E k \in 1..Len(log) : log[k].cycle > log[j].cycle /\ log[k].n = log[i].n
            /\ \E k \in 1..Len(log) : k > j /\ log[k].n = log[j].n /\ log[k].res = "ok"

(***************************************************************************)
(* C4 (amended): once block m has been ingested with success, no block     *)
(* numbered m or below is fetched or ingested again: every later range     *)
(* starts above m, so a block n < m that failed in m's range is not        *)
(* retried and m is not ingested a second time.                            *)
(***************************************************************************)
C4_NoReingestAfterSuccess ==
    /\ \A j, k \in 1..Len(log) :
          (j < k /\ log[j].res = "ok") => log[k].n > log[j].n
    /\ \A j \in 1..Len(log) :
          (log[j].res = "ok" /\ pc \in {"fetch", "txs"}) => block_num > log[j].n
    /\ \A j \in 1..Len(log) : \A k \in 1..Len(ranges) :
          (log[j].res = "ok" /\ log[j].cycle < k) => ranges[k].cursor >= log[j].n

\* Block n failed, block n+1 of the same range was ingested, and the following
\* cycle has handled a block: it is n+2.
W_C4 ==
    /\ Len(log) = 3
    /\ FailedThenIngested(1, 2)
    /\ log[3].cycle = log[2].cycle + 1
    /\ log[3].n = log[2].n + 1
    /\ pc = "sleep"

(***************************************************************************)
(* C5: with the cursor at 100 and the height at 103, when block 101 does   *)
(* not parse and blocks 102 and 103 are fetched and ingested with success, *)
(* the cycle ends with the cursor at 103, with rows for 102 and 103 and    *)
(* with no row for 101 in the store.                                       *)
(***************************************************************************)
Scenario5(k) ==
    /\ k = Len(ranges)
    /\ pc = "sleep"
    /\ ranges[k].cursor = StoredTip
    /\ ranges[k].height = StoredTip + 3
    /\ Len(CycleEntries(k)) = 3
    /\ CycleEntries(k)[1].res = "parse_err"
    /\ CycleEntries(k)[2].res = "ok"
    /\ CycleEntries(k)[3].res = "ok"
    /\ \A i \in 1..Len(log) : log[i].n = StoredTip + 1 => log[i].block_id = 0

HasBlockRow(n) == \E i \in 1..Len(blocks) : blocks[i].block_number = n

C5_CursorPastFailedBlock ==
    \A k \in 1..Len(ranges) :
        Scenario5(k) =>
            /\ last_block = StoredTip + 3
            /\ CycleEntries(k)[1].n = StoredTip + 1
            /\ ~HasBlockRow(StoredTip + 1)
            /\ HasBlockRow(StoredTip + 2)
            /\ HasBlockRow(StoredTip + 3)

W_C5 == Len(ranges) = 1 /\ Scenario5(1) /\ last_block = StoredTip + 3

(***************************************************************************)
(* C6: the initial cursor is the height the node reports when              *)
(* start_from_latest is set, and otherwise the highest block number of the *)
(* store, or 0 for a store without blocks; no block is fetched before it   *)
(* is chosen, and the first range starts from it.                          *)
(***************************************************************************)
StoreHasMax(rows, m) ==
    /\ \E i \in 1..Len(rows) : rows[i].block_number = m
    /\ \A i \in 1..Len(rows) : rows[i].block_number <= m

C6_InitialCursor ==
    /\ boot = -1 =>
          /\ pc \in {"startup", "boot", "exited"}
          /\ log = <<>> /\ ranges = <<>>
          /\ metrics.latency_get_block = 0
          /\ block_num = 0
    /\ boot # -1 =>
          /\ start_from_latest => boot = boot_height /\ boot_height \in BootHeights
          /\ ~start_from_latest => boot_height = -1
          /\ ranges # <<>> => ranges[1].cursor = boot
    /\ (boot # -1 /\ ranges = <<>>) =>
          /\ last_block = boot
          /\ ~start_from_latest =>
                IF blocks = <<>> THEN boot = 0 ELSE StoreHasMax(blocks, boot)

\* start_from_latest with a store that holds block StoredTip: the first range
\* starts from the height the node reported, not from the store's block.
W_C6 ==
    /\ start_from_latest
    /\ blocks # <<>>
    /\ pc = "fetch" /\ Len(ranges) = 1 /\ log = <<>>
    /\ ranges[1].cursor = StoredTip + 1
    /\ block_num = StoredTip + 2

(***************************************************************************)
(* C7: the run ends only on a store or configuration failure at start-up:  *)
(* no RPC failure, of the height query in particular, ends it, and once    *)
(* the initial cursor is chosen the run stays in the polling loop.         *)
(***************************************************************************)
CE_C7 ==
    /\ pc = "exited" => exit_cause \in {"startup", "store"}
    /\ boot # -1 => pc \in PollStates
    /\ pc \in PollStates => boot # -1

(***************************************************************************)
(* C8: once the shutdown signal is raised, no range is started at the top  *)
(* of a poll iteration and, when the handling of a block ends, no further  *)
(* block of the range is taken.                                            *)
(***************************************************************************)
CE_C8 ==
    [][shutdown =>
          /\ pc = "poll" => pc' # "fetch"
          /\ log' # log => pc' # "fetch"]_vars

(***************************************************************************)
(* C9: when a mandatory field of a block is missing or unparsable, or the  *)
(* insert of the block row fails, process_block returns an error; the step *)
(* writes no block, transaction or builder row and no audit record, counts *)
(* nothing, and leaves the cursor where it was.                            *)
(***************************************************************************)
BlockLevelErrors == {"parse_err", "store_err"}

Counters(m) ==
    <<m.blocks_processed, m.transactions_processed, m.mev_candidates,
      m.africa_tagged_blocks>>

MalformedNeverIngested ==
    /\ pc = "txs" => ~Malformed(block_json)
    /\ \A i \in 1..Len(log) :
          /\ log[i].malformed => log[i].res = "parse_err"
          /\ log[i].res \in BlockLevelErrors =>
                /\ log[i].block_id = 0
                /\ log[i].processed = 0
                /\ log[i].cursor = CursorBefore(i)
                /\ log[i].cursor # log[i].n

C9_BlockErrorWritesNothing ==
    /\ []MalformedNeverIngested
    /\ [][(Len(log') = Len(log) + 1 /\ log'[Len(log')].res \in BlockLevelErrors) =>
              /\ pc = "fetch"
              /\ storeVars' = storeVars
              /\ audit' = audit
              /\ Counters(metrics') = Counters(metrics)
              /\ last_block' = last_block]_vars

\* A response without a mandatory field and a failed insert of a block row have
\* both been handled.
W_C9 ==
    /\ \E i \in 1..Len(log) : log[i].res = "parse_err" /\ log[i].malformed
    /\ \E i \in 1..Len(log) : log[i].res = "store_err"
    /\ blocks = <<>> /\ transactions = <<>> /\ builders = <<>>
    /\ Counters(metrics) = <<0, 0, 0, 0>>

(***************************************************************************)
(* C10: a transaction that fails (no hash, or a failed insert) is skipped  *)
(* alone: process_block stays in its loop, the other transactions get      *)
(* their rows in order, and the block ends as it would without the         *)
(* failure: the builder step and the counters run, process_block returns   *)
(* Ok and the cursor is set to the block, whatever the set of failing      *)
(* transactions, all of them included.                                     *)
(***************************************************************************)
\* Position indices of the transaction rows of block row id, in insertion order.
PositionsOf(id) ==
    LET rows == SelectSeq(transactions, LAMBDA r : r.block_id = id)
    IN  [i \in 1..Len(rows) |-> rows[i].position_index]

\* The numbers lo..hi that are not in the set out, in increasing order.
RECURSIVE Kept(_, _, _)
Kept(lo, hi, out) ==
    IF lo > hi THEN <<>>
    ELSE (IF lo \in out THEN <<>> ELSE <<lo>>) \o Kept(lo + 1, hi, out)

OkEntries == {i \in 1..Len(log) : log[i].res = "ok"}

RECURSIVE SumNtx(_)
SumNtx(I) ==
    IF I = {} THEN 0
    ELSE LET i == CHOOSE x \in I : TRUE IN log[i].ntx + SumNtx(I \ {i})

C10_TransactionFailureSkipsOne ==
    /\ block_id # 0 => pc = "txs"
    /\ pc = "txs" =>
          /\ tx_index <= Len(block_json.transactions.a)
          /\ skipped \subseteq 0..(tx_index - 1)
          /\ PositionsOf(block_id) = Kept(0, tx_index - 1, skipped)
          /\ last_block < block_num
    /\ \A i \in 1..Len(log) :
          log[i].block_id # 0 =>
              /\ log[i].res \in {"ok", "builder_err"}
              /\ log[i].processed = log[i].ntx
              /\ log[i].ntx = Len(ChainTransactions(log[i].n))
              /\ log[i].skipped \subseteq 0..(log[i].ntx - 1)
              /\ PositionsOf(log[i].block_id) = Kept(0, log[i].ntx - 1, log[i].skipped)
              /\ log[i].res = "ok" =>
                    /\ log[i].cursor = log[i].n
                    /\ BuilderExists(builders, blocks[log[i].block_id].fee_recipient)
    /\ metrics.blocks_processed = Cardinality(OkEntries)
    /\ metrics.transactions_processed = SumNtx(OkEntries)

\* A block of two transactions was ingested with success and both transactions
\* were skipped; another one lost its second transaction only.
W_C10 ==
    /\ \E i \in 1..Len(log) :
          /\ log[i].res = "ok" /\ log[i].ntx = 2 /\ log[i].skipped = {0, 1}
          /\ log[i].cursor = log[i].n
          /\ PositionsOf(log[i].block_id) = <<>>
    /\ \E i \in 1..Len(log) :
          /\ log[i].res = "ok" /\ log[i].ntx = 2 /\ log[i].skipped = {1}
          /\ PositionsOf(log[i].block_id) = <<0>>
    /\ metrics.transactions_processed = 4

(***************************************************************************)
(* C11: the store holds at most one block row per block number and no      *)
(* transaction row twice, and an ingest of a block number that already has *)
(* a row returns success with the identifier of that row.                  *)
(***************************************************************************)
\* Entry j handles again, without any new failure of the node or the store, a
\* block whose earlier ingest i left its block row and returned an error.
Reingest(i, j) ==
    /\ i < j
    /\ log[i].n = log[j].n
    /\ log[i].block_id # 0
    /\ log[j].res \notin {"fetch_err", "absent", "parse_err"}
    /\ faults = 1

CE_C11 ==
    /\ \A i, j \in 1..Len(blocks) :
          blocks[i].block_number = blocks[j].block_number => i = j
    /\ \A i, j \in 1..Len(transactions) :
          (/\ transactions[i].tx_hash = transactions[j].tx_hash
           /\ blocks[transactions[i].block_id].block_number
                 = blocks[transactions[j].block_id].block_number) => i = j
    /\ \A i, j \in 1..Len(log) :
          Reingest(i, j) => /\ log[j].res = "ok"
                            /\ log[j].block_id = log[i].block_id

(***************************************************************************)
(* C12: there is at most one builder row per fee recipient; a successful   *)
(* ingest of a block whose fee recipient has no row appends one with       *)
(* is_known = false, and one whose fee recipient has a row, known or not,  *)
(* leaves the table as it is.  Nothing else writes the table.              *)
(***************************************************************************)
BuilderKeyUnique ==
    \A i, j \in 1..Len(builders) :
        builders[i].fee_recipient = builders[j].fee_recipient => i = j

\* The step ends an ingest with success.
IngestSucceeds == Len(log') = Len(log) + 1 /\ log'[Len(log')].res = "ok"

C12_BuilderRows ==
    /\ []BuilderKeyUnique
    /\ [][builders' # builders =>
              /\ IngestSucceeds
              /\ ~BuilderExists(builders, block_json.miner.s)
              /\ builders' = Append(builders, [fee_recipient |-> block_json.miner.s,
                                               is_known      |-> FALSE])]_vars
    /\ [][IngestSucceeds =>
              /\ BuilderExists(builders', block_json.miner.s)
              /\ BuilderExists(builders, block_json.miner.s) => builders' = builders]_vars

\* A block of the fee recipient whose row is marked known and a block of a new
\* fee recipient have been ingested: the first row is as it was, the second is new.
W_C12 ==
    /\ Len(builders) = 2
    /\ builders[1] = [fee_recipient |-> OtherMiner, is_known |-> TRUE]
    /\ builders[2] = [fee_recipient |-> TaggedMiner, is_known |-> FALSE]
    /\ \E i \in 1..Len(log) :
          log[i].res = "ok" /\ blocks[log[i].block_id].fee_recipient = OtherMiner
    /\ \E i \in 1..Len(log) :
          log[i].res = "ok" /\ blocks[log[i].block_id].fee_recipient = TaggedMiner

(***************************************************************************)
(* C13: a successful ingest of a block of N transactions raises            *)
(* blocks_processed by 1, transactions_processed by N, mev_candidates by   *)
(* the number of the block's transactions that have a reason code, whether *)
(* or not their row was written, and africa_tagged_blocks by 1 exactly     *)
(* when the block is tagged.                                               *)
(***************************************************************************)
\* The transactions of the list that have at least one reason code.
ReasonedTransactions(txs) ==
    {i \in 1..Len(txs) : mev_reasons(txs[i], txs, i - 1) # <<>>}

CE_C13 ==
    [][IngestSucceeds =>
          Counters(metrics') =
              <<metrics.blocks_processed + 1,
                metrics.transactions_processed + Len(block_json.transactions.a),
                metrics.mev_candidates
                    + Cardinality(ReasonedTransactions(block_json.transactions.a)),
                metrics.africa_tagged_blocks
                    + (IF is_africa_tagged(africa_fee_recipients, block_json.miner.s)
                       THEN 1 ELSE 0)>>]_vars

(***************************************************************************)
(* C14: without an audit file nothing is written to it, and with one a     *)
(* failed write does not fail the ingest: in both cases process_block      *)
(* returns Ok once the builder step is done, the rows and the counters are *)
(* those of an ingest whose audit record was written, and the cursor is    *)
(* set to the block.                                                       *)
(***************************************************************************)
AuditNeverFails ==
    /\ ~sample_output_path => audit = <<>>
    /\ Len(audit) <= Cardinality(OkEntries)
    /\ metrics.blocks_processed = Cardinality(OkEntries)
    /\ \A i \in 1..Len(log) :
          /\ log[i].res \in Failures \cup {"ok"}
          /\ log[i].res = "ok" => log[i].cursor = log[i].n

C14_AuditIsBestEffort ==
    /\ []AuditNeverFails
    /\ [][Counters(metrics') # Counters(metrics) =>
              /\ IngestSucceeds
              /\ last_block' = block_num
              /\ builders' = BuildersAfter(builders, block_json.miner.s)
              /\ metrics' = MetricsAfter(metrics, Len(block_json.transactions.a),
                                         mev_candidate_count,
                                         is_africa_tagged(africa_fee_recipients,
                                                          block_json.miner.s))
              /\ blocks' = blocks /\ transactions' = transactions
              /\ \/ audit' = audit
                 \/ /\ sample_output_path
                    /\ audit' = Append(audit, AuditBlock(block_json,
                                                         africa_fee_recipients,
                                                         mev_candidate_count))]_vars

\* Two blocks were ingested with an audit file configured; the record of one of
\* them was written and the write of the other failed.
W_C14 ==
    /\ sample_output_path
    /\ Cardinality(OkEntries) = 2
    /\ Len(audit) = 1
    /\ metrics.blocks_processed = 2
    /\ last_block = log[Len(log)].n
    /\ log[Len(log)].res = "ok"
    /\ audit[1].block_number # last_block

(***************************************************************************)
(* C15: every call of the height query and of the block fetch, failed      *)
(* calls included, records one latency observation under its operation     *)
(* name, and nothing else records one.                                     *)
(***************************************************************************)
Latencies(m) == <<m.latency_get_block_number, m.latency_get_block>>

\* The step is a call of get_latest_block_number.
HeightQueryStep == (pc = "boot" /\ start_from_latest /\ pc' # pc) \/ (pc = "poll" /\ pc' # pc)

\* The step is a call of get_block.
BlockFetchStep == pc = "fetch" /\ (log' # log \/ pc' = "txs")

CE_C15 ==
    [][Latencies(metrics') =
          <<metrics.latency_get_block_number + (IF HeightQueryStep THEN 1 ELSE 0),
            metrics.latency_get_block + (IF BlockFetchStep THEN 1 ELSE 0)>>]_vars

(***************************************************************************)
(* C16: the stored total_priority_fees of a block is the exact sum of the  *)
(* parsed maxPriorityFeePerGas of all its transactions, an absent or       *)
(* unparsable fee counting 0, with no wrap-around at the width of a fee.   *)
(***************************************************************************)
\* The fee a transaction states: the value of its hexadecimal digits, 0 when
\* the field is absent or is not a hexadecimal number.
StatedFee(tx) ==
    IF IsHexNumber(tx.maxPriorityFeePerGas)
    THEN DigitsValue(StripPrefix0x(tx.maxPriorityFeePerGas.s))
    ELSE 0

RECURSIVE StatedFeeSum(_, _)
StatedFeeSum(txs, k) ==
    IF k = 0 THEN 0 ELSE StatedFeeSum(txs, k - 1) + StatedFee(txs[k])

C16_TotalPriorityFeesExact ==
    \A i \in 1..Len(blocks) :
        LET txs == block_json.transactions.a
        IN  /\ blocks[i].block_number = HexField(block_json.number, FALSE).v
            /\ blocks[i].total_priority_fees = StatedFeeSum(txs, Len(txs))
            /\ \A k \in 1..Len(txs) :
                   blocks[i].total_priority_fees >= StatedFee(txs[k])

\* The row of a block is stored whose fees sum to three times the largest
\* value of a fee, with an absent and an unparsable fee among them.
W_C16 ==
    /\ Len(blocks) = 1
    /\ blocks[1].total_priority_fees = 3 * MaxFee
    /\ \E k \in 1..Len(block_json.transactions.a) :
           block_json.transactions.a[k].maxPriorityFeePerGas = JNull
    /\ \E k \in 1..Len(block_json.transactions.a) :
           block_json.transactions.a[k].maxPriorityFeePerGas = JStr(<<"z">>)

(***************************************************************************)
(* Vocabulary of the heuristics' rules, as the design states them.         *)
(***************************************************************************)
\* The transactions process_block was given.
JsonTransactions == block_json.transactions.a

\* The reason codes of transaction row k.
RowReasons(k) ==
    IF transactions[k].mev_reason_codes.some
    THEN transactions[k].mev_reason_codes.v ELSE <<>>

Has(q, x) == \E i \in 1..Len(q) : q[i] = x

\* The priority fee of every transaction of the block, a missing one as 0.
JsonFeeList == [k \in 1..Len(JsonTransactions) |-> StatedFee(JsonTransactions[k])]

TypedFeeList ==
    [k \in 1..Len(block_txs) |->
        IF block_txs[k].max_priority_fee_per_gas.some
        THEN block_txs[k].max_priority_fee_per_gas.v ELSE 0]

\* Twice the median of a non-empty list: the middle value of the sorted list,
\* or the arithmetic mean of its two middle values.
TwiceMedianOf(fees) ==
    LET sorted == Sort(fees)
        n == Len(sorted)
    IN  IF n % 2 = 0 THEN sorted[n \div 2] + sorted[n \div 2 + 1]
        ELSE 2 * sorted[n \div 2 + 1]

\* median > 0 and fee > 3 * median, for the transaction at position k.
OutlierRule(fees, k) ==
    /\ TwiceMedianOf(fees) > 0
    /\ 2 * fees[k] > 3 * TwiceMedianOf(fees)

(***************************************************************************)
(* C17: in the detector and in the ingestion path, HighPriorityFee is      *)
(* reported for a transaction exactly when the block's median priority fee *)
(* is above 0 and the transaction's fee is strictly above 3 times the      *)
(* median.                                                                 *)
(***************************************************************************)
CE_C17 ==
    /\ \A k \in 1..Len(transactions) :
           Has(RowReasons(k), "high_priority_fee_outlier")
               <=> OutlierRule(JsonFeeList, k)
    /\ \A k \in 1..Len(reason_codes) :
           Has(reason_codes[k], "HighPriorityFee") <=> OutlierRule(TypedFeeList, k)

(***************************************************************************)
(* C18: the median both implementations use is the median of the priority  *)
(* fees of every transaction of the block, a missing fee taken as 0: the   *)
(* middle value, or the arithmetic mean of the two middle values; with no  *)
(* fees HighPriorityFee is never reported.                                 *)
(***************************************************************************)
CE_C18 ==
    /\ \A k \in 1..Len(transactions) :
           LET fees == Sort(BlockFees(JsonTransactions))
           IN  IF fees = <<>>
               THEN ~Has(RowReasons(k), "high_priority_fee_outlier")
               ELSE 2 * Median(fees) = TwiceMedianOf(JsonFeeList)
    /\ \A k \in 1..Len(reason_codes) :
           LET fees == Sort(TypedFees(block_txs))
           IN  IF fees = <<>>
               THEN ~Has(reason_codes[k], "HighPriorityFee")
               ELSE TwiceDecimalMedian(fees) = TwiceMedianOf(TypedFeeList)

(***************************************************************************)
(* C19: in both implementations RepeatedSender is reported for a           *)
(* transaction exactly when its sender, letter case set aside, sent at     *)
(* least 3 transactions of the block, itself included.                     *)
(***************************************************************************)
\* The transactions at positions i and k of the block have one sender.
SameJsonSender(i, k) ==
    /\ IsStr(JsonTransactions[i].from)
    /\ IsStr(JsonTransactions[k].from)
    /\ to_lowercase(JsonTransactions[i].from.s) = to_lowercase(JsonTransactions[k].from.s)

CE_C19 ==
    /\ \A k \in 1..Len(transactions) :
           Has(RowReasons(k), "repeated_sender_sequence")
               <=> Cardinality({i \in 1..Len(JsonTransactions) : SameJsonSender(i, k)}) >= 3
    /\ \A k \in 1..Len(reason_codes) :
           Has(reason_codes[k], "RepeatedSender")
               <=> Cardinality({i \in 1..Len(block_txs) :
                                   block_txs[i].from = block_txs[k].from}) >= 3

(***************************************************************************)
(* C20: in both implementations SandwichPattern is reported for the        *)
(* transaction at index i exactly when its sender, letter case set aside,  *)
(* sent a transaction at a lower index and one at a higher index of the    *)
(* block.                                                                  *)
(***************************************************************************)
CE_C20 ==
    /\ \A k \in 1..Len(transactions) :
           Has(RowReasons(k), "sandwich_pattern")
               <=> /\ \E i \in 1..(k - 1) : SameJsonSender(i, k)
                   /\ \E i \in (k + 1)..Len(JsonTransactions) : SameJsonSender(i, k)
    /\ \A k \in 1..Len(reason_codes) :
           Has(reason_codes[k], "SandwichPattern")
               <=> /\ \E i \in 1..(k - 1) : block_txs[i].from = block_txs[k].from
                   /\ \E i \in (k + 1)..Len(block_txs) :
                          block_txs[i].from = block_txs[k].from

(***************************************************************************)
(* C21: AtomicMultiswap is reported for a transaction exactly when at      *)
(* least 2 distinct selectors of the set (3 in the detector, 5 in the      *)
(* ingestion path) occur in its lower-cased hexadecimal calldata.          *)
(***************************************************************************)
\* How many selectors of the set occur in the string of digits.
SelectorsIn(set, digits) ==
    Cardinality({k \in 1..Len(set) : Contains(digits, set[k])})

CE_C21 ==
    /\ \A k \in 1..Len(transactions) :
           Has(RowReasons(k), "atomic_multiswap")
               <=> /\ IsStr(JsonTransactions[k].input)
                   /\ SelectorsIn(swap_patterns,
                                  to_lowercase(JsonTransactions[k].input.s)) >= 2
    /\ \A k \in 1..Len(reason_codes) :
           Has(reason_codes[k], "AtomicMultiswap")
               <=> SelectorsIn(detector_swap_patterns,
                               to_lowercase(hex_encode(block_txs[k].input))) >= 2

(***************************************************************************)
(* C22: detect_mev_patterns returns a list of reason codes, without        *)
(* failing, for every transaction, every list and every index from 0 to    *)
(* the length of the list inclusive.                                       *)
(***************************************************************************)
CE_C22 == pc # "panicked"

(***************************************************************************)
(* C23: for each reason code, the string the ingestion path stores in a    *)
(* transaction row's list of reason codes is the tag the enumeration of    *)
(* reason codes gives the code.                                            *)
(***************************************************************************)
\* The ingestion path's rule for the code triggers on the transaction at
\* position k of the block.
IngestionRule(code, k) ==
    LET txs == JsonTransactions
    IN  CASE code = "HighPriorityFee" -> HighPriorityFee(txs[k], txs)
          [] code = "RepeatedSender"  -> RepeatedSender(txs[k], txs)
          [] code = "AtomicMultiswap" -> AtomicMultiswap(txs[k])
          [] code = "SandwichPattern" -> SandwichPattern(txs[k], txs, k - 1)

CE_C23 ==
    \A k \in 1..Len(transactions) :
        /\ \A c \in 1..Len(MevReasonCode) :
               IngestionRule(MevReasonCode[c], k)
                   <=> Has(RowReasons(k), as_str(MevReasonCode[c]))
        /\ \A i \in 1..Len(RowReasons(k)) :
               \E c \in 1..Len(MevReasonCode) :
                   RowReasons(k)[i] = as_str(MevReasonCode[c])

(***************************************************************************)
(* C24: the reason codes of a transaction, from the detector and from the  *)
(* ingestion path, are a duplicate-free subsequence of the order           *)
(* HighPriorityFee, RepeatedSender, AtomicMultiswap, SandwichPattern; each *)
(* rule is evaluated whether or not the others triggered; the candidate    *)
(* flag is true exactly when the list is not empty.                        *)
(***************************************************************************)
\* The strings the ingestion path stores, in the order of the reason codes.
StoredReasons ==
    <<"high_priority_fee_outlier", "repeated_sender_sequence", "atomic_multiswap",
      "sandwich_pattern">>

Rank(order, x) == CHOOSE i \in 1..Len(order) : order[i] = x

\* q is a subsequence of order without duplicates.
OrderedWithin(q, order) ==
    /\ \A i \in 1..Len(q) : Has(order, q[i])
    /\ \A i, j \in 1..Len(q) : i < j => Rank(order, q[i]) < Rank(order, q[j])

\* The detector's rule for the code triggers on the typed transaction at
\* position k.
DetectorRule(code, k) ==
    CASE code = "HighPriorityFee" -> is_high_priority_fee_outlier(block_txs[k], block_txs)
      [] code = "RepeatedSender"  -> is_repeated_sender(block_txs[k], block_txs, k - 1)
      [] code = "AtomicMultiswap" -> is_atomic_multiswap(block_txs[k])
      [] code = "SandwichPattern" -> is_sandwich_pattern(block_txs[k], block_txs, k - 1)

C24_ReasonCodesOrdered ==
    /\ \A k \in 1..Len(transactions) :
           /\ OrderedWithin(RowReasons(k), StoredReasons)
           /\ \A c \in 1..4 :
                  Has(RowReasons(k), StoredReasons[c])
                      <=> IngestionRule(MevReasonCode[c], k)
           /\ transactions[k].is_mev_candidate <=> RowReasons(k) # <<>>
    /\ \A k \in 1..Len(reason_codes) :
           /\ OrderedWithin(reason_codes[k], MevReasonCode)
           /\ \A c \in 1..4 :
                  Has(reason_codes[k], MevReasonCode[c])
                      <=> DetectorRule(MevReasonCode[c], k)

\* The middle transaction of three was given all four reason codes, in the
\* order of the enumeration, by the ingestion path and by the detector.
W_C24 ==
    /\ Len(transactions) = 3
    /\ RowReasons(2) = StoredReasons
    /\ transactions[2].is_mev_candidate
    /\ RowReasons(1) = <<"repeated_sender_sequence">>
    /\ Len(reason_codes) = 3
    /\ reason_codes[2] = MevReasonCode
    /\ reason_codes[1] = <<"RepeatedSender">>

(***************************************************************************)
(* C25: the tagger's membership test is case-insensitive; a successful     *)
(* refresh makes the set the lower-cased distinct fee recipients of the    *)
(* table of validators; a refresh whose read of the store fails returns an *)
(* error and leaves the set as it was.                                     *)
(***************************************************************************)
\* The set is the lower-cased fee recipients of the table.
MirrorsTable(set, table) ==
    /\ \A v \in table : to_lowercase(v) \in set
    /\ \A a \in set : \E v \in table : to_lowercase(v) = a

C25_TaggerRefresh ==
    /\ \A k \in 1..Len(tagger_calls) :
           LET c == tagger_calls[k]
           IN  /\ c.op = "is_africa_tagged" =>
                      /\ c.result = "true" <=> to_lowercase(c.arg) \in c.before
                      /\ c.after = c.before
               /\ c.op = "refresh" /\ c.result = "ok" => MirrorsTable(c.after, c.table)
               /\ c.op = "refresh" /\ c.result = "err" => c.after = c.before
               /\ c.op = "import" => c.after = c.before
               /\ k > 1 => c.before = tagger_calls[k - 1].after
    /\ tagger_calls # <<>> =>
           africa_fee_recipients = tagger_calls[Len(tagger_calls)].after

\* The table was emptied, the refresh that followed failed on the store, and
\* the tagger still answers true for the address written in capitals.
W_C25 ==
    /\ Len(tagger_calls) = 3
    /\ tagger_calls[1].op = "import"
    /\ tagger_calls[2].op = "refresh" /\ tagger_calls[2].result = "err"
    /\ tagger_calls[2].table = {}
    /\ tagger_calls[3].op = "is_africa_tagged"
    /\ tagger_calls[3].arg = TaggedMinerUpper
    /\ tagger_calls[3].result = "true"
    /\ africa_fee_recipients = {to_lowercase(TaggedMiner)}

(***************************************************************************)
(* C26: ingest is not atomic.  When the builder step fails after the block *)
(* row and the transaction rows were written, ingest returns an error, the *)
(* rows stay, no counter is incremented and the cursor is not advanced: the *)
(* store holds a block row whose number is above the cursor.               *)
(***************************************************************************)
BuilderFailures == {i \in 1..Len(log) : log[i].res = "builder_err"}

\* The step in which process_block returns the error of update_builder.
BuilderStepFails ==
    /\ Len(log') = Len(log) + 1
    /\ log'[Len(log')].res = "builder_err"

C26_IngestNotAtomic ==
    /\ [](\A i \in BuilderFailures :
             /\ log[i].block_id \in 1..Len(blocks)
             /\ blocks[log[i].block_id].block_number = log[i].n
             /\ Len(PositionsOf(log[i].block_id)) =
                    log[i].ntx - Cardinality(log[i].skipped)
             /\ log[i].cursor = CursorBefore(i)
             /\ log[i].cursor < log[i].n)
    /\ [][BuilderStepFails =>
              /\ HasBlockRow(block_num)
              /\ block_id # 0
              /\ Counters(metrics') = Counters(metrics)
              /\ <<blocks', transactions', builders', audit'>> =
                     <<blocks, transactions, builders, audit>>
              /\ last_block' = last_block
              /\ last_block' < block_num]_vars

\* The builder step failed on block StoredTip + 1: its row and a row of one of
\* its transactions are in the store, the counters are at 0 and the cursor is
\* below the block.
W_C26 ==
    /\ Len(log) = 1
    /\ log[1].res = "builder_err"
    /\ log[1].n = StoredTip + 1
    /\ HasBlockRow(StoredTip + 1)
    /\ \E r \in 1..Len(transactions) : transactions[r].block_id = log[1].block_id
    /\ Counters(metrics) = <<0, 0, 0, 0>>
    /\ last_block = StoredTip

(***************************************************************************)
(* C27: a transaction row's position index is the zero-based index of the  *)
(* transaction in the block's original list, also after earlier            *)
(* transactions of the block were skipped, and the rows of a block are     *)
(* written in increasing index order.                                      *)
(***************************************************************************)
\* The transactions of the block that row r belongs to, as the chain has them.
OriginalList(r) == ChainTransactions(blocks[transactions[r].block_id].block_number)

C27_PositionIsOriginalIndex ==
    /\ \A r \in 1..Len(transactions) :
           /\ transactions[r].block_id \in 1..Len(blocks)
           /\ transactions[r].position_index \in 0..(Len(OriginalList(r)) - 1)
           /\ OriginalList(r)[transactions[r].position_index + 1].hash =
                  JStr(transactions[r].tx_hash)
    /\ \A r1, r2 \in 1..Len(transactions) :
           r1 < r2 /\ transactions[r1].block_id = transactions[r2].block_id =>
               transactions[r1].position_index < transactions[r2].position_index

\* The first transaction of a block of two was skipped: the only row of the
\* block carries the index 1.
W_C27 ==
    \E i \in 1..Len(log) :
        /\ log[i].res = "ok"
        /\ log[i].skipped = {0}
        /\ log[i].ntx = 2
        /\ PositionsOf(log[i].block_id) = <<1>>

(***************************************************************************)
(* C28: in the ingestion path the HighPriorityFee decision is the one      *)
(* unbounded arithmetic gives, for every list of fees of the type's width: *)
(* neither the sum of the two middle fees nor 3 times the median wraps     *)
(* around or aborts the processing of the transaction.                     *)
(***************************************************************************)
\* The ingestion path's rule with integers of no width, for the transaction
\* at position k of the block.
UnboundedHighPriorityFee(k) ==
    LET txs    == JsonTransactions
        fees   == Sort(BlockFees(txs))
        median == IF Len(fees) % 2 = 0 THEN MiddleSum(fees) \div 2
                  ELSE fees[Len(fees) \div 2 + 1]
    IN  /\ max_priority_fee(txs[k]) > 0
        /\ fees # <<>>
        /\ max_priority_fee(txs[k]) > median * 3
        /\ median > 0

CE_C28 ==
    /\ pc # "overflow_panic"
    /\ \A k \in 1..Len(transactions) :
           Has(RowReasons(k), "high_priority_fee_outlier")
               <=> UnboundedHighPriorityFee(k)

(***************************************************************************)
(* C29: during a run the set used to tag blocks is the one loaded at       *)
(* startup: a validator added to or removed from the store after the       *)
(* tagger was built never changes the tagged flag of the blocks ingested   *)
(* later in the run, because the loop never refreshes the tagger.          *)
(***************************************************************************)
C29_TaggerIsStartupSnapshot ==
    /\ pc \notin {"startup", "exited"} =>
           africa_fee_recipients = LoadedRecipients(Validators)
    /\ \A i \in 1..Len(blocks) :
           blocks[i].is_africa_tagged
               <=> is_africa_tagged(LoadedRecipients(Validators),
                                    blocks[i].fee_recipient)

\* The table was rewritten before the run's first block row: a block of the
\* removed validator is tagged all the same, and a block of the added one is
\* not.
W_C29 ==
    /\ Len(tagger_calls) = 1
    /\ tagger_calls[1].first
    /\ validators = RewrittenTable
    /\ \E i \in 1..Len(blocks) :
           /\ blocks[i].is_africa_tagged
           /\ ~is_africa_tagged(LoadedRecipients(validators), blocks[i].fee_recipient)
    /\ \E i \in 1..Len(blocks) :
           /\ ~blocks[i].is_africa_tagged
           /\ is_africa_tagged(LoadedRecipients(validators), blocks[i].fee_recipient)

(***************************************************************************)
(* C30: if block n fails (fetch error, absent block or ingest error) in a  *)
(* cycle in which a later block m > n of the same range is ingested with   *)
(* success, block n is never fetched or ingested again in the run: every   *)
(* later range starts above m, and the gap at n is permanent.              *)
(***************************************************************************)
C30_FailedBlockIsPermanentGap ==
    \A i, j \in 1..Len(log) :
        FailedThenIngested(i, j) =>
            /\ log[i].n < log[j].n
            /\ \A k \in 1..Len(log) :
                   log[k].n = log[i].n => k <= i /\ log[k].res \in Failures
            /\ \A r \in (log[j].cycle + 1)..Len(ranges) :
                   RangeStart(ranges[r].cursor) > log[j].n
            /\ (pc \in {"fetch", "txs"} /\ Len(ranges) > log[j].cycle) =>
                   block_num > log[j].n
            /\ last_block >= log[j].n
            /\ boot # -1 /\ log[i].n \notin OkNumbers

\* Block n was absent and block n+1 of the same range was ingested; a second
\* range has been handled to its end, ingesting n+2, and n has no row.
W_C30 ==
    /\ pc = "sleep"
    /\ Len(ranges) = 2
    /\ Len(log) = 3
    /\ log[1].res = "absent" /\ log[1].cycle = 1
    /\ log[2].res = "ok" /\ log[2].cycle = 1 /\ log[2].n = log[1].n + 1
    /\ log[3].res = "ok" /\ log[3].cycle = 2 /\ log[3].n = log[1].n + 2
    /\ ~HasBlockRow(log[1].n)
    /\ last_block = log[1].n + 2

(***************************************************************************)
(* C34: in both implementations, whenever SandwichPattern is among the     *)
(* reason codes of a transaction of a block, RepeatedSender is among them  *)
(* too: the transaction itself, one of its sender before it and one after  *)
(* it make a sender count of at least 3.                                   *)
(***************************************************************************)
C34_SandwichImpliesRepeatedSender ==
    /\ \A k \in 1..Len(transactions) :
           Has(RowReasons(k), "sandwich_pattern")
               => Has(RowReasons(k), "repeated_sender_sequence")
    /\ \A k \in 1..Len(reason_codes) :
           Has(reason_codes[k], "SandwichPattern")
               => Has(reason_codes[k], "RepeatedSender")

\* Both implementations have reported SandwichPattern for the middle one of
\* three transactions of one sender, and not for the first.
W_C34 ==
    /\ Len(transactions) = 3 /\ Len(reason_codes) = 3
    /\ Has(RowReasons(2), "sandwich_pattern")
    /\ Has(RowReasons(2), "repeated_sender_sequence")
    /\ ~Has(RowReasons(1), "sandwich_pattern")
    /\ Has(reason_codes[2], "SandwichPattern")
    /\ Has(reason_codes[2], "RepeatedSender")
    /\ ~Has(reason_codes[1], "SandwichPattern")

(***************************************************************************)
(* C33: between two ingests the counter blocks_processed is the number of  *)
(* ingest calls that returned success, which is the number of times the    *)
(* loop advanced the cursor; an ingest that returns an error changes no    *)
(* counter.                                                                *)
(***************************************************************************)
\* The log entries at which the loop moved the cursor.
CursorAdvances == {i \in 1..Len(log) : log[i].cursor # CursorBefore(i)}

\* An ingest has returned an error in this step.
IngestReturnsError ==
    /\ log' # log
    /\ log'[Len(log')].res \in IngestErrors

C33_BlocksProcessedCountsSuccesses ==
    /\ [](/\ metrics.blocks_processed = Cardinality(OkEntries)
          /\ CursorAdvances = OkEntries
          /\ \A i \in CursorAdvances : log[i].cursor > CursorBefore(i))
    /\ [][IngestReturnsError => Counters(metrics') = Counters(metrics)]_vars
    /\ [][Counters(metrics') # Counters(metrics) =>
              /\ Len(log') = Len(log) + 1
              /\ log'[Len(log')].res = "ok"
              /\ last_block' = block_num /\ last_block' > last_block]_vars

\* Three ingests have returned: a success, an error of the builder step and
\* an error of the block's INSERT; one block is counted and the cursor moved
\* once.
W_C33 ==
    /\ metrics.blocks_processed = 1
    /\ Cardinality(CursorAdvances) = 1
    /\ \E i, j, k \in 1..Len(log) :
           /\ log[i].res = "ok"
           /\ log[j].res = "builder_err"
           /\ log[k].res \in {"store_err", "parse_err"}

(***************************************************************************)
(* C31: with the chain height at H above the cursor, every cycle goes on   *)
(* to block H whatever fails on the blocks below it, and the cycle in      *)
(* which the fetch and the ingest of H succeed ends with the cursor at H.  *)
(***************************************************************************)
\* A range is being handled.
InRange == pc \in {"fetch", "txs"}

\* The last range has been handled to its end: its last log entry is for the
\* block at the height of the range.
RangeReachedHeight ==
    /\ pc = "sleep"
    /\ ranges # <<>> /\ log # <<>>
    /\ log[Len(log)].cycle = Len(ranges)
    /\ log[Len(log)].n = ranges[Len(ranges)].height

C31_CursorReachesHeight ==
    /\ [][InRange => LoopControl]_vars
    /\ InRange ~> (/\ RangeReachedHeight
                   /\ log[Len(log)].res = "ok" =>
                          last_block = ranges[Len(ranges)].height)
    /\ []((pc = "sleep" /\ ranges # <<>>) => RangeReachedHeight)
    /\ [](\A k \in 1..Len(ranges) :
              \A i \in 1..Len(log) :
                  (log[i].cycle = k /\ log[i].n = ranges[k].height
                                   /\ log[i].res = "ok") =>
                      /\ log[i].cursor = ranges[k].height
                      /\ last_block >= ranges[k].height)

\* A cycle with the height three blocks above the cursor is over: the first
\* block was absent, the fetch of the second failed, the third was ingested
\* and the cursor is at the height.
W_C31 ==
    /\ RangeReachedHeight
    /\ Len(ranges) = 1 /\ Len(log) = 3
    /\ ranges[1].height = ranges[1].cursor + 3
    /\ log[1].res = "absent"
    /\ log[2].res = "fetch_err"
    /\ log[3].res = "ok"
    /\ last_block = ranges[1].height

(***************************************************************************)
(* C32: every transaction row refers to the identifier of a block row that *)
(* was inserted before it; no transaction row and no builder row is        *)
(* written for a block whose block-row insert did not succeed.             *)
(***************************************************************************)
\* The row that the step adds to the table transactions.
NewTransactionRow == transactions'[Len(transactions')]

\* A call of process_block ends without having inserted a block row.
EndsWithoutBlockRow ==
    /\ Len(log') = Len(log) + 1
    /\ log'[Len(log')].block_id = 0

C32_RowsFollowTheirBlockRow ==
    /\ [](\A r \in 1..Len(transactions) :
              /\ transactions[r].block_id \in 1..Len(blocks)
              /\ blocks[transactions[r].block_id].id = transactions[r].block_id)
    /\ [](\A i \in 1..Len(builders) :
              \E k \in 1..Len(blocks) :
                  blocks[k].fee_recipient = builders[i].fee_recipient)
    /\ [][transactions' # transactions =>
              /\ transactions' = Append(transactions, NewTransactionRow)
              /\ blocks' = blocks
              /\ NewTransactionRow.block_id \in 1..Len(blocks)
              /\ blocks[NewTransactionRow.block_id].block_number = block_num]_vars
    /\ [][builders' # builders =>
              /\ blocks' = blocks
              /\ block_id \in 1..Len(blocks)
              /\ blocks[block_id].block_number = block_num
              /\ builders'[Len(builders')].fee_recipient
                     = blocks[block_id].fee_recipient]_vars
    /\ [][EndsWithoutBlockRow =>
              /\ blocks' = blocks
              /\ transactions' = transactions
              /\ builders' = builders]_vars

\* The INSERT of a block row has failed and nothing was written for that
\* block; the next block has its row, a transaction row and a new builder row.
W_C32 ==
    /\ Len(log) = 2
    /\ log[1].res = "store_err" /\ ~log[1].malformed
    /\ log[2].res = "ok" /\ log[2].n = log[1].n + 1
    /\ \A k \in 1..Len(blocks) : blocks[k].block_number # log[1].n
    /\ \E r \in 1..Len(transactions) : transactions[r].block_id = log[2].block_id
    /\ \E i \in 1..Len(builders) : ~builders[i].is_known

====
